---- MODULE Spec2Model ----
(***************************************************************************)
(* A model of the FuzzerK virtual machine (src/src/vm.rs) and of the       *)
(* helpers it calls (src/src/datautils.rs, src/src/lib.rs).                *)
(*                                                                         *)
(* Strings are sequences of one-character strings, byte buffers are        *)
(* sequences of 0..255, and a HashMap is a function whose DOMAIN is the    *)
(* set of keys present.  isize is modelled on the narrowest target Rust    *)
(* supports (16 bit), so that every isize fits the model checker's         *)
(* integers and the boundary values can be enumerated.                     *)
(***************************************************************************)
EXTENDS Integers, Sequences, FiniteSets, TLC

\* ------------------------------------------------------------------------
\* Bounds of the model
\* ------------------------------------------------------------------------

\* The run loop is cut after this many executed instructions.
MaxSteps == 7

\* Instructions a generated data program has after its prelude.
GenLen == 2

\* Instructions a generated control-flow program has after its prelude.
CtlLen == 3

\* The random count of buf8randomize is sampled up to this value.
MaxRandCount == 2

\* Library calls on integers take those this close to zero, to the minimum
\* and to the maximum.
IntSpan == 300

\* Library calls on text take every string up to this length.
MaxStrLen == 5

\* The number of lines of a generated program text.
TextLen == 4

\* The appends and gets made on the fuzz chains of one behaviour.
MaxCalls == 4

\* Library calls on byte vectors take those up to this length.
MaxBufLen == 3

\* The operands of a bufmerged line are at most MaxSrcs.
MaxSrcs == 3

\* The data given to crosscorr_weighted_f_of_xf has at most MaxData entries.
MaxData == 4

\* ------------------------------------------------------------------------
\* Machine integers
\* ------------------------------------------------------------------------

\* isize::BITS/8 on a 16 bit target
WordBytes == 2

IntBits == 8 * WordBytes

\* isize::MAX and isize::MIN
MaxInt == (2 ^ (IntBits - 1)) - 1

MinInt == 0 - (2 ^ (IntBits - 1))

ISize == MinInt..MaxInt

\* The value a wrapping (release build) isize operation keeps of x.
Wrap(x) == ((x - MinInt) % (2 ^ IntBits)) + MinInt

\* Result of an operation that can panic: ok = FALSE is the panic.
Ok(val) == [ok |-> TRUE, v |-> val]

Panic == [ok |-> FALSE, v |-> 0]

\* Rust's truncating division and remainder on in-range operands (b # 0).
Abs(x) == IF x < 0 THEN 0 - x ELSE x

TruncDiv(a, b) ==
    IF (a < 0) = (b < 0) THEN Abs(a) \div Abs(b) ELSE 0 - (Abs(a) \div Abs(b))

TruncRem(a, b) == a - (b * TruncDiv(a, b))

\* An arithmetic operator of isize: overflow panics in a build with overflow
\* checks (debug) and wraps in a build without (release); both outcomes are
\* possible outcomes of the source.
Checked(x) == IF x \in ISize THEN {Ok(x)} ELSE {Panic, Ok(Wrap(x))}

\* src1 / src2 and src1 % src2: a zero divisor panics in every build, and so
\* does isize::MIN / -1 and isize::MIN % -1 ("attempt to divide with
\* overflow"), whatever the overflow-check setting.
DivResults(a, b) ==
    IF b = 0 \/ (a = MinInt /\ b = 0 - 1) THEN {Panic} ELSE {Ok(TruncDiv(a, b))}

ModResults(a, b) ==
    IF b = 0 \/ (a = MinInt /\ b = 0 - 1) THEN {Panic} ELSE {Ok(TruncRem(a, b))}

AluResults(aluop, src1, src2) ==
    CASE aluop = "Add" -> Checked(src1 + src2)
      [] aluop = "Sub" -> Checked(src1 - src2)
      [] aluop = "Mult" -> Checked(src1 * src2)
      [] aluop = "Div" -> DivResults(src1, src2)
      [] aluop = "Mod" -> ModResults(src1, src2)

\* ------------------------------------------------------------------------
\* Characters and strings
\* ------------------------------------------------------------------------

\* The printable ASCII characters, code 32 first (code 96 by name).
AsciiTable ==
    << " ", "!", "\"", "#", "$", "%", "&", "'", "(", ")", "*", "+", ",", "-",
       ".", "/", "0", "1", "2", "3", "4", "5", "6", "7", "8", "9", ":", ";",
       "<", "=", ">", "?", "@", "A", "B", "C", "D", "E", "F", "G", "H", "I",
       "J", "K", "L", "M", "N", "O", "P", "Q", "R", "S", "T", "U", "V", "W",
       "X", "Y", "Z", "[", "\\", "]", "^", "_", "grave", "a", "b", "c", "d", "e",
       "f", "g", "h", "i", "j", "k", "l", "m", "n", "o", "p", "q", "r", "s",
       "t", "u", "v", "w", "x", "y", "z", "{", "|", "}", "~" >>

\* U+FFFD, the character String::from_utf8_lossy puts for an invalid byte.
ReplacementChar == "U+FFFD"

\* UTF-8 bytes of a character; a tab is code 9.
CharBytes(c) ==
    IF c = "\t" THEN << 9 >>
    ELSE IF c = ReplacementChar THEN << 239, 191, 189 >>
    ELSE << 31 + (CHOOSE i \in 1..Len(AsciiTable) : AsciiTable[i] = c) >>

\* Vec::from(String): the UTF-8 image of the string, the images of its
\* characters in order (halving keeps the evaluation shallow).
RECURSIVE StrBytes(_)
StrBytes(s) ==
    IF Len(s) = 0 THEN << >>
    ELSE IF Len(s) = 1 THEN CharBytes(s[1])
    ELSE StrBytes(SubSeq(s, 1, Len(s) \div 2))
         \o StrBytes(SubSeq(s, (Len(s) \div 2) + 1, Len(s)))

\* String::from_utf8_lossy on bytes that are printable ASCII or invalid
\* (a byte above 127 standing alone).
Utf8Lossy(b) ==
    [i \in 1..Len(b) |->
        IF b[i] \in 32..126 THEN AsciiTable[b[i] - 31] ELSE ReplacementChar]

IsWhitespace(c) == c \in {" ", "\t", "\n", "\r"}

\* str::trim
RECURSIVE TrimStart(_)
TrimStart(s) ==
    IF s # << >> /\ IsWhitespace(Head(s)) THEN TrimStart(Tail(s)) ELSE s

RECURSIVE TrimEnd(_)
TrimEnd(s) ==
    IF s # << >> /\ IsWhitespace(s[Len(s)])
    THEN TrimEnd(SubSeq(s, 1, Len(s) - 1)) ELSE s

Trim(s) == TrimEnd(TrimStart(s))

DecDigits == << "0", "1", "2", "3", "4", "5", "6", "7", "8", "9" >>

\* isize::to_string / u8::to_string
RECURSIVE NatToString(_)
NatToString(n) ==
    IF n < 10 THEN << DecDigits[n + 1] >>
    ELSE NatToString(n \div 10) \o << DecDigits[(n % 10) + 1] >>

to_string(i) == IF i < 0 THEN << "-" >> \o NatToString(0 - i) ELSE NatToString(i)

\* char::to_digit(radix): -1 when c is not a digit of the radix.
DigitVal(c, radix) ==
    LET d == CASE c \in {"0", "1", "2", "3", "4", "5", "6", "7", "8", "9"} ->
                      (CHOOSE i \in 1..10 : DecDigits[i] = c) - 1
               [] c \in {"a", "A"} -> 10
               [] c \in {"b", "B"} -> 11
               [] c \in {"c", "C"} -> 12
               [] c \in {"d", "D"} -> 13
               [] c \in {"e", "E"} -> 14
               [] c \in {"f", "F"} -> 15
               [] OTHER -> 0 - 1
    IN IF d >= 0 /\ d < radix THEN d ELSE 0 - 1

\* Magnitude of a digit string, -1 on a non-digit, saturated above isize.
RECURSIVE Magnitude(_, _, _)
Magnitude(s, radix, acc) ==
    IF s = << >> THEN acc
    ELSE IF DigitVal(Head(s), radix) < 0 THEN 0 - 1
    ELSE LET nxt == (acc * radix) + DigitVal(Head(s), radix)
         IN Magnitude(Tail(s), radix, IF nxt > MaxInt + 2 THEN MaxInt + 2 ELSE nxt)

\* A parse that reads the magnitude as a positive isize and then negates it.
FromStrRadixViaAbs(s, radix) ==
    LET neg == s # << >> /\ Head(s) = "-"
        signed == s # << >> /\ Head(s) \in {"+", "-"}
        digits == IF signed THEN Tail(s) ELSE s
        mag == IF digits = << >> THEN 0 - 1 ELSE Magnitude(digits, radix, 0)
    IN IF mag < 0 \/ mag > MaxInt THEN Panic
       ELSE IF neg THEN Ok(0 - mag) ELSE Ok(mag)

\* isize::from_str_radix: optional sign, at least one digit, no overflow.
FromStrRadix(s, radix) ==
    LET neg == s # << >> /\ Head(s) = "-"
        signed == s # << >> /\ Head(s) \in {"+", "-"}
        digits == IF signed THEN Tail(s) ELSE s
        mag == IF digits = << >> THEN 0 - 1 ELSE Magnitude(digits, radix, 0)
    IN IF mag < 0 THEN Panic
       ELSE IF neg THEN (IF mag > MaxInt + 1 THEN Panic ELSE Ok(0 - mag))
       ELSE IF mag > MaxInt THEN Panic ELSE Ok(mag)

\* datautils::intvalue::<isize>
intvalue(sval) ==
    LET t == Trim(sval)
    IN IF Len(t) >= 2 /\ t[1] = "0" /\ t[2] = "x"
       THEN FromStrRadix(SubSeq(t, 3, Len(t)), 16)
       ELSE FromStrRadix(t, 10)

\* ------------------------------------------------------------------------
\* integer.rs: U8X and intvalue::<U8X>
\* ------------------------------------------------------------------------

\* A conversion that keeps the low byte of every integer.
U8X_from_truncating(ival) == Ok(ival % 256)

\* impl From<isize> for U8X: a panic beyond the u8 range, else ival as usize
\* as u8.
U8X_from(ival) ==
    IF ival < 0 \/ ival > 255 THEN Panic ELSE Ok((ival % (2 ^ IntBits)) % 256)

\* integer::intvalue::<U8X> once the text is parsed: the ? returns the parse
\* failure as Err, and T::try_from(ival).unwrap() is U8X::from.  ok is "Ok",
\* "Err" or "panic".
IntvalueU8X(ival, u8x) ==
    IF ~ival.ok THEN [ok |-> "Err", v |-> 0]
    ELSE IF ~u8x.ok THEN [ok |-> "panic", v |-> 0]
    ELSE [ok |-> "Ok", v |-> u8x.v]

\* integer::intvalue::<U8X>(sval); it trims and parses as datautils::intvalue
\* does.
integer_intvalue(sval) ==
    IntvalueU8X(intvalue(sval), IF intvalue(sval).ok THEN U8X_from(intvalue(sval).v)
                                ELSE Panic)

\* ------------------------------------------------------------------------
\* datautils::remove_extra_whitespaces
\* ------------------------------------------------------------------------

\* outs and the three flags before the loop
RewStart == [outs |-> << >>, besc |-> FALSE, binquotes |-> FALSE, bwhitespace |-> FALSE]

\* A loop body that flips bwhitespace on every whitespace outside quotes.
RewStepFlipping(st, c) ==
    IF IsWhitespace(c)
    THEN IF st.binquotes THEN [st EXCEPT !.outs = Append(@, c)]
         ELSE IF ~st.bwhitespace
              THEN [st EXCEPT !.bwhitespace = TRUE, !.outs = Append(@, " ")]
         ELSE [st EXCEPT !.bwhitespace = FALSE]
    ELSE LET pushed == [st EXCEPT !.bwhitespace = FALSE, !.outs = Append(@, c)]
         IN IF st.besc THEN [pushed EXCEPT !.besc = FALSE]
            ELSE IF c = "\"" THEN [pushed EXCEPT !.binquotes = ~st.binquotes]
            ELSE IF c = "\\" THEN [pushed EXCEPT !.besc = st.binquotes]
            ELSE pushed

\* One pass of the loop body, on the character c.
RewStep(st, c) ==
    IF IsWhitespace(c)
    THEN IF st.binquotes THEN [st EXCEPT !.outs = Append(@, c)]
         ELSE IF ~st.bwhitespace
              THEN [st EXCEPT !.bwhitespace = TRUE, !.outs = Append(@, " ")]
         ELSE st
    ELSE LET pushed == [st EXCEPT !.bwhitespace = FALSE, !.outs = Append(@, c)]
         IN IF st.besc THEN [pushed EXCEPT !.besc = FALSE]
            ELSE IF c = "\"" THEN [pushed EXCEPT !.binquotes = ~st.binquotes]
            ELSE IF c = "\\" THEN [pushed EXCEPT !.besc = st.binquotes]
            ELSE pushed

\* for i in 0..incv.len()
RECURSIVE RewFrom(_, _, _)
RewFrom(st, ins, i) ==
    IF i > Len(ins) THEN st ELSE RewFrom(RewStep(st, ins[i]), ins, i + 1)

remove_extra_whitespaces(ins) == RewFrom(RewStart, ins, 1).outs

\* ------------------------------------------------------------------------
\* Bytes
\* ------------------------------------------------------------------------

Byte == 0..255

\* Little-endian image of the non-negative number n in k bytes.
RECURSIVE LeBytes(_, _)
LeBytes(n, k) ==
    IF k = 0 THEN << >> ELSE << n % 256 >> \o LeBytes(n \div 256, k - 1)

RECURSIVE LeValue(_)
LeValue(b) == IF b = << >> THEN 0 ELSE Head(b) + (256 * LeValue(Tail(b)))

Reverse(s) == [i \in 1..Len(s) |-> s[(Len(s) + 1) - i]]

\* isize::to_ne_bytes on a target of the given endianness
to_ne_bytes(i, big) ==
    LET le == LeBytes(IF i < 0 THEN i + (2 ^ IntBits) ELSE i, WordBytes)
    IN IF big THEN Reverse(le) ELSE le

\* isize::from_le_bytes(slice.try_into().unwrap()): the slice must hold
\* exactly one word.
from_le_bytes(b) ==
    IF Len(b) # WordBytes THEN Panic ELSE Ok(Wrap(LeValue(b)))

\* A decode that takes the bytes as little-endian on every target.
from_ne_bytes_as_le(b, big) == from_le_bytes(b)

\* isize::from_ne_bytes(slice.try_into().expect(..))
from_ne_bytes(b, big) == from_le_bytes(IF big THEN Reverse(b) ELSE b)

\* datautils::hex_from_vu8: for each byte in order, the high and then the
\* low nibble appended with u8::to_string (halving keeps the evaluation
\* shallow).
RECURSIVE hex_from_vu8(_)
hex_from_vu8(inv) ==
    IF Len(inv) = 0 THEN << >>
    ELSE IF Len(inv) = 1
         THEN NatToString(inv[1] \div 16) \o NatToString(inv[1] % 16)
    ELSE hex_from_vu8(SubSeq(inv, 1, Len(inv) \div 2))
         \o hex_from_vu8(SubSeq(inv, (Len(inv) \div 2) + 1, Len(inv)))


\* ------------------------------------------------------------------------
\* Operands (enum DataM).  One record shape for all variants: i the integer
\* payload, n the variable name, s the string payload, b the byte payload.
\* ------------------------------------------------------------------------

IntLiteral(i) == [k |-> "IntLiteral", i |-> i, n |-> "", s |-> << >>, b |-> << >>]

IntVar(n) == [k |-> "IntVar", i |-> 0, n |-> n, s |-> << >>, b |-> << >>]

StringLiteral(s) == [k |-> "StringLiteral", i |-> 0, n |-> "", s |-> s, b |-> << >>]

StringVar(n) == [k |-> "StringVar", i |-> 0, n |-> n, s |-> << >>, b |-> << >>]

BufData(b) == [k |-> "BufData", i |-> 0, n |-> "", s |-> << >>, b |-> b]

AnyVar(n) == [k |-> "AnyVar", i |-> 0, n |-> n, s |-> << >>, b |-> << >>]

XTimeStamp == [k |-> "XTimeStamp", i |-> 0, n |-> "", s |-> << >>, b |-> << >>]

XRandomBytes(i) == [k |-> "XRandomBytes", i |-> i, n |-> "", s |-> << >>, b |-> << >>]

\* Values the host clock and the host random generator are sampled at.
\* Milliseconds since the epoch (a u128); 40000 does not fit the isize.
NowMsVals == {1000, 40000}

\* Debug rendering of SystemTime::now() at 1000 ms.
NowDebugStr ==
    << "S", "y", "s", "t", "e", "m", "T", "i", "m", "e", " ", "{", " ",
       "t", "v", "_", "s", "e", "c", ":", " ", "1", ",", " ",
       "t", "v", "_", "n", "s", "e", "c", ":", " ", "0", " ", "}" >>

\* Bytes rng.gen_range(0..=255) is sampled at.
RandByteVals == {65, 255}

RECURSIVE RandVecs(_)
RandVecs(len) ==
    IF len = 0 THEN {<< >>}
    ELSE {<< x >> \o r : x \in RandByteVals, r \in RandVecs(len - 1)}

Min(x, y) == IF x < y THEN x ELSE y

VARIABLES
    ops,                \* VM.ops: the compiled instructions
    lbls,               \* Context.lbls: label -> instruction index
    funcs,              \* Context.funcs: name -> <<index, formals>>
    big_endian,         \* cfg(target_endian = "big") of the build
    strs,               \* Context.strs
    ints,               \* Context.ints
    bufs,               \* Context.bufs
    iobs,               \* Context.iobs
    stepu,              \* Context.stepu
    iptr,               \* Context.iptr
    iptr_commonupdate,  \* Context.iptr_commonupdate
    callstack,          \* Context.callstack
    locals,             \* Context.locals
    status,             \* "run", "halt" (VM::run returned) or "panic"
    nsteps,             \* instructions executed so far
    last,               \* the instruction executed last and its locals
    fcsteps,            \* the steps passed to FuzzChainImmuts::get so far
    iolog,              \* the calls made on bridges so far, with their results
    fin,                \* library call: the function and its arguments
    fout,               \* library call: what it returned
    fstage,             \* library call: "off", "in" (to be made) or "out" (made)
    fc,                 \* a FuzzChain: its chain and its step
    fci,                \* a FuzzChainImmuts: its chain
    fcgets,             \* the calls of FuzzChain::get so far
    fcigets             \* the calls of FuzzChainImmuts::get so far

vars ==
    << ops, lbls, funcs, big_endian, strs, ints, bufs, iobs, stepu, iptr,
       iptr_commonupdate, callstack, locals, status, nsteps, last, fcsteps, iolog,
       fin, fout, fstage, fc, fci, fcgets, fcigets >>

\* The fuzz chains held beside the machine.
chains == << fc, fci, fcgets, fcigets >>

\* What the run never changes.
static == << ops, lbls, funcs, big_endian, fin, fout, fstage, chains >>

\* DataM::get_isize: the set of possible results.
get_isize(dm) ==
    CASE dm.k = "IntLiteral" -> {Ok(dm.i)}
      [] dm.k = "IntVar" ->
            IF dm.n \in DOMAIN ints THEN {Ok(ints[dm.n])} ELSE {Panic}
      [] dm.k = "StringLiteral" -> {intvalue(dm.s)}
      [] dm.k = "StringVar" ->
            IF dm.n \in DOMAIN strs THEN {intvalue(strs[dm.n])} ELSE {Panic}
      [] dm.k = "BufData" -> {from_ne_bytes(dm.b, big_endian)}
      [] dm.k = "AnyVar" ->
            IF dm.n \in DOMAIN ints THEN {Ok(ints[dm.n])}
            ELSE IF dm.n \in DOMAIN strs THEN {intvalue(strs[dm.n])}
            ELSE IF dm.n \in DOMAIN bufs THEN {from_ne_bytes(bufs[dm.n], big_endian)}
            ELSE {Panic}
      [] dm.k = "XTimeStamp" -> {Ok(Wrap(ms)) : ms \in NowMsVals}
      [] dm.k = "XRandomBytes" ->
            {from_le_bytes(r) : r \in RandVecs(Min(WordBytes, dm.i))}

\* DataM::get_usize
get_usize(dm) == {IF r.ok /\ r.v < 0 THEN Panic ELSE r : r \in get_isize(dm)}

\* DataM::get_string
get_string(dm) ==
    CASE dm.k = "IntLiteral" -> {Ok(to_string(dm.i))}
      [] dm.k = "IntVar" ->
            IF dm.n \in DOMAIN ints THEN {Ok(to_string(ints[dm.n]))} ELSE {Panic}
      [] dm.k = "StringLiteral" -> {Ok(dm.s)}
      [] dm.k = "StringVar" ->
            IF dm.n \in DOMAIN strs THEN {Ok(strs[dm.n])} ELSE {Panic}
      [] dm.k = "BufData" -> {Ok(hex_from_vu8(dm.b))}
      [] dm.k = "AnyVar" ->
            IF dm.n \in DOMAIN ints THEN {Ok(to_string(ints[dm.n]))}
            ELSE IF dm.n \in DOMAIN strs THEN {Ok(strs[dm.n])}
            ELSE IF dm.n \in DOMAIN bufs THEN {Ok(hex_from_vu8(bufs[dm.n]))}
            ELSE {Panic}
      [] dm.k = "XTimeStamp" -> {Ok(NowDebugStr)}
      [] dm.k = "XRandomBytes" -> {Ok(Utf8Lossy(r)) : r \in RandVecs(dm.i)}

\* u128::to_ne_bytes of the millisecond count: sixteen bytes.
NowBytes(ms, big) == IF big THEN Reverse(LeBytes(ms, 16)) ELSE LeBytes(ms, 16)

\* DataM::get_bufvu8
get_bufvu8(dm) ==
    CASE dm.k = "IntLiteral" -> {Ok(to_ne_bytes(dm.i, big_endian))}
      [] dm.k = "IntVar" ->
            IF dm.n \in DOMAIN ints
            THEN {Ok(to_ne_bytes(ints[dm.n], big_endian))} ELSE {Panic}
      [] dm.k = "StringLiteral" -> {Ok(StrBytes(dm.s))}
      [] dm.k = "StringVar" ->
            IF dm.n \in DOMAIN strs THEN {Ok(StrBytes(strs[dm.n]))} ELSE {Panic}
      [] dm.k = "BufData" -> {Ok(dm.b)}
      [] dm.k = "AnyVar" ->
            IF dm.n \in DOMAIN ints THEN {Ok(to_ne_bytes(ints[dm.n], big_endian))}
            ELSE IF dm.n \in DOMAIN strs THEN {Ok(StrBytes(strs[dm.n]))}
            ELSE IF dm.n \in DOMAIN bufs THEN {Ok(bufs[dm.n])}
            ELSE {Panic}
      [] dm.k = "XTimeStamp" -> {Ok(NowBytes(ms, big_endian)) : ms \in NowMsVals}
      [] dm.k = "XRandomBytes" -> {Ok(r) : r \in RandVecs(dm.i)}


\* ------------------------------------------------------------------------
\* enum Variant (vm/datas.rs), in the record shape of DataM
\* ------------------------------------------------------------------------

IntValue(i) == [k |-> "IntValue", i |-> i, n |-> "", s |-> << >>, b |-> << >>]

StrValue(s) == [k |-> "StrValue", i |-> 0, n |-> "", s |-> s, b |-> << >>]

BufValue(b) == [k |-> "BufValue", i |-> 0, n |-> "", s |-> << >>, b |-> b]

VXTimeStamp == [k |-> "XTimeStamp", i |-> 0, n |-> "", s |-> << >>, b |-> << >>]

VXRandomBytes(i) == [k |-> "XRandomBytes", i |-> i, n |-> "", s |-> << >>, b |-> << >>]

\* Variant::get_isize
Variant_get_isize(v) ==
    CASE v.k = "IntValue" -> {Ok(v.i)}
      [] v.k = "StrValue" -> {intvalue(v.s)}
      [] v.k = "BufValue" -> {from_ne_bytes(v.b, big_endian)}
      [] v.k = "XTimeStamp" -> {Ok(Wrap(ms)) : ms \in NowMsVals}
      [] v.k = "XRandomBytes" ->
            {from_ne_bytes(r, big_endian) : r \in RandVecs(Min(WordBytes, v.i))}

\* Variant::get_string
Variant_get_string(v) ==
    CASE v.k = "IntValue" -> {Ok(to_string(v.i))}
      [] v.k = "StrValue" -> {Ok(v.s)}
      [] v.k = "BufValue" -> {Ok(hex_from_vu8(v.b))}
      [] v.k = "XTimeStamp" -> {Ok(NatToString(ms)) : ms \in NowMsVals}
      [] v.k = "XRandomBytes" -> {Ok(Utf8Lossy(r)) : r \in RandVecs(v.i)}

\* Variant::get_bufvu8
Variant_get_bufvu8(v) ==
    CASE v.k = "IntValue" -> {Ok(to_ne_bytes(v.i, big_endian))}
      [] v.k = "StrValue" -> {Ok(StrBytes(v.s))}
      [] v.k = "BufValue" -> {Ok(v.b)}
      [] v.k = "XTimeStamp" -> {Ok(NowBytes(ms, big_endian)) : ms \in NowMsVals}
      [] v.k = "XRandomBytes" -> {Ok(r) : r \in RandVecs(v.i)}

\* ------------------------------------------------------------------------
\* Instructions (enum Op).  One record shape for all variants: x the
\* ALUOP / CondOp / merge type, a the names, d the operands.
\* ------------------------------------------------------------------------

Nop == [op |-> "Nop", x |-> "", a |-> << >>, d |-> << >>]

LetStr(vid, dm) == [op |-> "LetStr", x |-> "", a |-> << vid >>, d |-> << dm >>]

LetInt(vid, dm) == [op |-> "LetInt", x |-> "", a |-> << vid >>, d |-> << dm >>]

Inc(vid) == [op |-> "Inc", x |-> "", a |-> << vid >>, d |-> << >>]

Dec(vid) == [op |-> "Dec", x |-> "", a |-> << vid >>, d |-> << >>]

Alu(aluop, destvid, dmsrc1, dmsrc2) ==
    [op |-> "Alu", x |-> aluop, a |-> << destvid >>, d |-> << dmsrc1, dmsrc2 >>]

IobNew(ioid, ioaddr) == [op |-> "IobNew", x |-> "", a |-> << ioid, ioaddr >>, d |-> << >>]

IobWrite(ioid, bufid) == [op |-> "IobWrite", x |-> "", a |-> << ioid, bufid >>, d |-> << >>]

IobFlush(ioid) == [op |-> "IobFlush", x |-> "", a |-> << ioid >>, d |-> << >>]

IobRead(ioid, bufid) == [op |-> "IobRead", x |-> "", a |-> << ioid, bufid >>, d |-> << >>]

IobClose(ioid) == [op |-> "IobClose", x |-> "", a |-> << ioid >>, d |-> << >>]

\* a = <<sop, destname>> \o destargs
If(cop, val1dm, val2dm, sop, destname, destargs) ==
    [op |-> "If", x |-> cop, a |-> << sop, destname >> \o destargs,
     d |-> << val1dm, val2dm >>]

CheckJump(arg1, arg2, ltlabel, eqlabel, gtlabel) ==
    [op |-> "CheckJump", x |-> "", a |-> << ltlabel, eqlabel, gtlabel >>,
     d |-> << arg1, arg2 >>]

Jump(label) == [op |-> "Jump", x |-> "", a |-> << label >>, d |-> << >>]

\* a = <<label>> \o passedargs
Call(label, passedargs) ==
    [op |-> "Call", x |-> "", a |-> << label >> \o passedargs, d |-> << >>]

Ret == [op |-> "Ret", x |-> "", a |-> << >>, d |-> << >>]

SleepMSec(msecdm) == [op |-> "SleepMSec", x |-> "", a |-> << >>, d |-> << msecdm >>]

FcGet(fcid, bufid) == [op |-> "FcGet", x |-> "", a |-> << fcid, bufid >>, d |-> << >>]

BufNew(bufid, dmbufsize) ==
    [op |-> "BufNew", x |-> "", a |-> << bufid >>, d |-> << dmbufsize >>]

LetBuf(bufid, bufdm) == [op |-> "LetBuf", x |-> "", a |-> << bufid >>, d |-> << bufdm >>]

LetBufStr(bufid, bufdm) ==
    [op |-> "LetBufStr", x |-> "", a |-> << bufid >>, d |-> << bufdm >>]

Buf8Randomize(bufid, dmrandcount, dmstartoffset, dmendoffset, dmstartval, dmendval) ==
    [op |-> "Buf8Randomize", x |-> "", a |-> << bufid >>,
     d |-> << dmrandcount, dmstartoffset, dmendoffset, dmstartval, dmendval >>]

BufsMerge(destbufid, srcbufids) ==
    [op |-> "BufsMerge", x |-> "", a |-> << destbufid >> \o srcbufids, d |-> << >>]

BufMerged(mtype, destbufid, srcdms) ==
    [op |-> "BufMerged", x |-> mtype, a |-> << destbufid >>, d |-> srcdms]

\* ------------------------------------------------------------------------
\* Context
\* ------------------------------------------------------------------------

\* HashMap::remove and HashMap::insert
MapRemove(m, key) == [q \in (DOMAIN m) \ {key} |-> m[q]]

MapInsert(m, key, val) == [q \in (DOMAIN m) \cup {key} |-> IF q = key THEN val ELSE m[q]]

EmptyMap == [q \in {} |-> 0]

\* var_remove that forgets the strings.
var_remove_keeps_strs(vname) ==
    [ints |-> MapRemove(ints, vname), strs |-> strs, bufs |-> MapRemove(bufs, vname)]

\* Context::var_remove: the three maps without vname.
var_remove(vname) ==
    [ints |-> MapRemove(ints, vname), strs |-> MapRemove(strs, vname),
     bufs |-> MapRemove(bufs, vname)]

\* Context::varadd_int
varadd_int(vname, vvalue) ==
    /\ ints' = MapInsert(var_remove(vname).ints, vname, vvalue)
    /\ strs' = var_remove(vname).strs
    /\ bufs' = var_remove(vname).bufs

\* varadd_str without the var_remove before the insert.
varadd_str_no_remove(vname, vvalue) ==
    /\ ints' = ints
    /\ strs' = MapInsert(strs, vname, vvalue)
    /\ bufs' = bufs

\* Context::varadd_str
varadd_str(vname, vvalue) ==
    /\ ints' = var_remove(vname).ints
    /\ strs' = MapInsert(var_remove(vname).strs, vname, vvalue)
    /\ bufs' = var_remove(vname).bufs

\* Context::varadd_buf
varadd_buf(vname, vvalue) ==
    /\ ints' = var_remove(vname).ints
    /\ strs' = var_remove(vname).strs
    /\ bufs' = MapInsert(var_remove(vname).bufs, vname, vvalue)


\* ------------------------------------------------------------------------
\* VM::run: one action per instruction kind, each a whole loop iteration
\* ------------------------------------------------------------------------

data == << strs, ints, bufs >>

CurOp == ops[iptr + 1]

\* The loop's exit test.
RunOver(ip) == ip >= Len(ops)

\* The loop body is entered for an instruction of this kind.
Exec(kind) ==
    /\ status = "run"
    /\ ~RunOver(iptr)
    /\ nsteps < MaxSteps
    /\ CurOp.op = kind

\* if self.ctxt.iptr_commonupdate { self.ctxt.iptr += 1; }
CommonUpdate(ip, cu) == IF cu THEN ip + 1 ELSE ip

\* The flag left by the previous instruction, were it not set again.
CommonUpdateStale == iptr_commonupdate

\* self.ctxt.iptr_commonupdate = true, before the instruction runs
CommonUpdateAtEntry == TRUE

Last(opdo, label) == [at |-> iptr, opdo |-> opdo, label |-> label]

\* The instruction returned with iptr = ip and iptr_commonupdate = cu.
Done(ip, cu, lastrec) ==
    /\ iptr_commonupdate' = cu
    /\ iptr' = CommonUpdate(ip, cu)
    /\ status' = "run"
    /\ nsteps' = nsteps + 1
    /\ last' = lastrec
    /\ UNCHANGED static

\* The instruction returned without touching iptr.
Fall == Done(iptr, CommonUpdateAtEntry, Last(FALSE, ""))

\* The instruction panicked: the process is gone.
Abort ==
    /\ iptr_commonupdate' = CommonUpdateAtEntry
    /\ status' = "panic"
    /\ nsteps' = nsteps + 1
    /\ last' = Last(FALSE, "")
    /\ UNCHANGED << iptr, static >>

\* The loop found iptr beyond the last instruction and VM::run returned.
Halt ==
    /\ status = "run"
    /\ RunOver(iptr)
    /\ status' = "halt"
    /\ UNCHANGED << static, data, iobs, stepu, iptr, iptr_commonupdate,
                    callstack, locals, nsteps, last, fcsteps, iolog >>

RunNop ==
    /\ Exec("Nop")
    /\ Fall
    /\ UNCHANGED << data, iobs, stepu, callstack, locals, fcsteps, iolog >>

RunLetStr ==
    /\ Exec("LetStr")
    /\ \E r \in get_string(CurOp.d[1]) :
          IF r.ok THEN varadd_str(CurOp.a[1], r.v) /\ Fall
          ELSE Abort /\ UNCHANGED data
    /\ UNCHANGED << iobs, stepu, callstack, locals, fcsteps, iolog >>

RunLetInt ==
    /\ Exec("LetInt")
    /\ \E r \in get_isize(CurOp.d[1]) :
          IF r.ok THEN varadd_int(CurOp.a[1], r.v) /\ Fall
          ELSE Abort /\ UNCHANGED data
    /\ UNCHANGED << iobs, stepu, callstack, locals, fcsteps, iolog >>

\* val += 1 on the int the instruction names
IncResults(vid) == IF vid \in DOMAIN ints THEN Checked(ints[vid] + 1) ELSE {Panic}

\* val -= 1 on the int the instruction names
DecResults(vid) == IF vid \in DOMAIN ints THEN Checked(ints[vid] - 1) ELSE {Panic}

RunInc ==
    /\ Exec("Inc")
    /\ \E r \in IncResults(CurOp.a[1]) :
          IF r.ok THEN varadd_int(CurOp.a[1], r.v) /\ Fall
          ELSE Abort /\ UNCHANGED data
    /\ UNCHANGED << iobs, stepu, callstack, locals, fcsteps, iolog >>

RunDec ==
    /\ Exec("Dec")
    /\ \E r \in DecResults(CurOp.a[1]) :
          IF r.ok THEN varadd_int(CurOp.a[1], r.v) /\ Fall
          ELSE Abort /\ UNCHANGED data
    /\ UNCHANGED << iobs, stepu, callstack, locals, fcsteps, iolog >>

\* Both operands fetched, then the operator applied.
AluRun(aluop, dmsrc1, dmsrc2) ==
    UNION {IF ~r1.ok THEN {Panic}
           ELSE UNION {IF ~r2.ok THEN {Panic} ELSE AluResults(aluop, r1.v, r2.v) :
                       r2 \in get_isize(dmsrc2)} :
           r1 \in get_isize(dmsrc1)}

RunAlu ==
    /\ Exec("Alu")
    /\ \E r \in AluRun(CurOp.x, CurOp.d[1], CurOp.d[2]) :
          IF r.ok THEN varadd_int(CurOp.a[1], r.v) /\ Fall
          ELSE Abort /\ UNCHANGED data
    /\ UNCHANGED << iobs, stepu, callstack, locals, fcsteps, iolog >>


\* ------------------------------------------------------------------------
\* Conditions (CondOp::check)
\* ------------------------------------------------------------------------

\* CondOp::IfLtInt
CheckLt(val1, val2) ==
    UNION {IF ~r1.ok THEN {Panic}
           ELSE {IF ~r2.ok THEN Panic ELSE Ok(r1.v < r2.v) : r2 \in get_isize(val2)} :
           r1 \in get_isize(val1)}

\* The "+ 1" of IfLeInt and IfGeInt
AdjVal(dm) == UNION {IF ~r.ok THEN {Panic} ELSE Checked(r.v + 1) : r \in get_isize(dm)}

\* CondOp::IfEqBuf
CheckEqBuf(val1, val2) ==
    UNION {IF ~r1.ok THEN {Panic}
           ELSE {IF ~r2.ok THEN Panic ELSE Ok(r1.v = r2.v) : r2 \in get_bufvu8(val2)} :
           r1 \in get_bufvu8(val1)}

CondCheck(cop, val1, val2) ==
    CASE cop = "IfLtInt" -> CheckLt(val1, val2)
      [] cop = "IfGtInt" -> CheckLt(val2, val1)
      [] cop = "IfLeInt" ->
            UNION {IF ~adj.ok THEN {Panic} ELSE CheckLt(val1, IntLiteral(adj.v)) :
                   adj \in AdjVal(val2)}
      [] cop = "IfGeInt" ->
            UNION {IF ~adj.ok THEN {Panic} ELSE CheckLt(val2, IntLiteral(adj.v)) :
                   adj \in AdjVal(val1)}
      [] cop = "IfEqBuf" -> CheckEqBuf(val1, val2)
      [] cop = "IfNeBuf" ->
            {IF r.ok THEN Ok(~r.v) ELSE Panic : r \in CheckEqBuf(val1, val2)}

\* ------------------------------------------------------------------------
\* Control flow
\* ------------------------------------------------------------------------

\* Op::Jump(label).run
DoJump(label, opdo) ==
    IF label # "__NEXT__"
    THEN IF label \in DOMAIN lbls
         THEN Done(lbls[label], FALSE, Last(opdo, label))
         ELSE Abort
    ELSE Done(iptr, CommonUpdateAtEntry, Last(opdo, label))

\* The frame a call builds: each formal bound to the passed name, looked up
\* once in the frame on top of locals.
CallFrame(formals, passedargs) ==
    LET lastnames == IF locals = << >> THEN EmptyMap ELSE locals[Len(locals)]
        basename(nm) == IF nm \in DOMAIN lastnames THEN lastnames[nm] ELSE nm
        lastidx(f) == CHOOSE i \in 1..Len(formals) :
                          /\ formals[i] = f
                          /\ \A j \in (i + 1)..Len(formals) : formals[j] # f
    IN [f \in {formals[i] : i \in 1..Len(formals)} |-> basename(passedargs[lastidx(f)])]

\* A call that pushes the return address instead of its own index.
DoCallPushNext(label, passedargs, opdo) ==
    /\ callstack' = Append(callstack, iptr + 1)
    /\ IF label \in DOMAIN funcs /\ Len(funcs[label].args) = Len(passedargs)
       THEN /\ locals' = Append(locals, CallFrame(funcs[label].args, passedargs))
            /\ Done(funcs[label].idx, FALSE, Last(opdo, label))
       ELSE /\ locals' = locals
            /\ Abort

\* Op::Call(label, passedargs).run
DoCall(label, passedargs, opdo) ==
    /\ callstack' = Append(callstack, iptr)
    /\ IF label \in DOMAIN funcs /\ Len(funcs[label].args) = Len(passedargs)
       THEN /\ locals' = Append(locals, CallFrame(funcs[label].args, passedargs))
            /\ Done(funcs[label].idx, FALSE, Last(opdo, label))
       ELSE /\ locals' = locals
            /\ Abort

RunJump ==
    /\ Exec("Jump")
    /\ DoJump(CurOp.a[1], FALSE)
    /\ UNCHANGED << data, iobs, stepu, callstack, locals, fcsteps, iolog >>

RunCall ==
    /\ Exec("Call")
    /\ DoCall(CurOp.a[1], Tail(CurOp.a), FALSE)
    /\ UNCHANGED << data, iobs, stepu, fcsteps, iolog >>

\* A pop that takes the oldest entry.
PopOldest(stack) == [v |-> stack[1], rest |-> Tail(stack)]

\* Vec::pop on a stack that is not empty: the newest entry, and what is left.
Pop(stack) ==
    [v |-> stack[Len(stack)], rest |-> SubSeq(stack, 1, Len(stack) - 1)]

\* A ret that clears the flag, so that the run loop adds nothing.
RunRetNoCommonUpdate ==
    /\ Exec("Ret")
    /\ IF callstack # << >>
       THEN /\ callstack' = Pop(callstack).rest
            /\ Done(Pop(callstack).v, FALSE, Last(FALSE, ""))
       ELSE /\ callstack' = callstack
            /\ Abort
    /\ UNCHANGED << data, iobs, stepu, locals, fcsteps, iolog >>

\* iptr = callstack.pop().expect(..), and the common update then adds one.
RunRet ==
    /\ Exec("Ret")
    /\ IF callstack # << >>
       THEN /\ callstack' = Pop(callstack).rest
            /\ Done(Pop(callstack).v, CommonUpdateAtEntry, Last(FALSE, ""))
       ELSE /\ callstack' = callstack
            /\ Abort
    /\ UNCHANGED << data, iobs, stepu, locals, fcsteps, iolog >>

RunIf ==
    /\ Exec("If")
    /\ \E c \in CondCheck(CurOp.x, CurOp.d[1], CurOp.d[2]) :
          IF ~c.ok THEN Abort /\ UNCHANGED << callstack, locals >>
          ELSE IF ~c.v THEN Fall /\ UNCHANGED << callstack, locals >>
          ELSE IF CurOp.a[1] \in {"goto", "jump"}
               THEN DoJump(CurOp.a[2], TRUE) /\ UNCHANGED << callstack, locals >>
          ELSE IF CurOp.a[1] = "call"
               THEN DoCall(CurOp.a[2], SubSeq(CurOp.a, 3, Len(CurOp.a)), TRUE)
          ELSE Abort /\ UNCHANGED << callstack, locals >>
    /\ UNCHANGED << data, iobs, stepu, fcsteps, iolog >>

\* A selection that sends equal operands to the less-than label.
CheckJumpLabelLe(varg1, varg2, ltlabel, eqlabel, gtlabel) ==
    IF varg1 <= varg2 THEN ltlabel ELSE gtlabel

\* The label CheckJump selects.
CheckJumpLabel(varg1, varg2, ltlabel, eqlabel, gtlabel) ==
    IF varg1 < varg2 THEN ltlabel
    ELSE IF varg1 = varg2 THEN eqlabel
    ELSE gtlabel

RunCheckJump ==
    /\ Exec("CheckJump")
    /\ \E r1 \in get_isize(CurOp.d[1]), r2 \in get_isize(CurOp.d[2]) :
          IF ~r1.ok \/ ~r2.ok THEN Abort
          ELSE DoJump(CheckJumpLabel(r1.v, r2.v, CurOp.a[1], CurOp.a[2], CurOp.a[3]),
                      FALSE)
    /\ UNCHANGED << data, iobs, stepu, callstack, locals, fcsteps, iolog >>


\* ------------------------------------------------------------------------
\* Fuzz chains (lib.rs) and the fuzzers of the registry
\* ------------------------------------------------------------------------

LoopFixedStrings(list) == [kind |-> "LoopFixedStrings", list |-> list]

RandomFixedStrings(list) == [kind |-> "RandomFixedStrings", list |-> list]

\* Fuzz::append_fuzzed_immut: the buffers the fuzzer can leave in buf.
append_fuzzed_immut(fuzzer, step, buf) ==
    IF fuzzer.kind = "LoopFixedStrings"
    THEN {buf \o StrBytes(fuzzer.list[(step % Len(fuzzer.list)) + 1])}
    ELSE {buf \o StrBytes(fuzzer.list[i]) : i \in 1..Len(fuzzer.list)}

\* The loop of FuzzChainImmuts::get from fuzzer i on.
RECURSIVE ChainFrom(_, _, _, _)
ChainFrom(chain, i, step, buf) ==
    IF i > Len(chain) THEN {buf}
    ELSE UNION {ChainFrom(chain, i + 1, step, nb) :
                nb \in append_fuzzed_immut(chain[i], step, buf)}

\* A fuzzer that follows itself in the chain appending once only.
FuzzChainImmutsGetOnce(chain, step) ==
    LET kept == SelectSeq([i \in 1..Len(chain) |-> [at |-> i, fz |-> chain[i]]],
                          LAMBDA e : e.at = 1 \/ chain[e.at - 1] # e.fz)
    IN ChainFrom([i \in 1..Len(kept) |-> kept[i].fz], 1, step, << >>)

\* FuzzChainImmuts::get
FuzzChainImmuts_get(chain, step) == ChainFrom(chain, 1, step, << >>)

\* FuzzChain::new and FuzzChainImmuts::new, before any call.
NoChains ==
    /\ fc = [chain |-> << >>, step |-> 0]
    /\ fci = [chain |-> << >>]
    /\ fcgets = << >>
    /\ fcigets = << >>

\* Fuzz::append_fuzzed: the buffers the fuzzer can leave in buf.
append_fuzzed(fuzzer, step, buf) == append_fuzzed_immut(fuzzer, step, buf)

\* The loop of FuzzChain::get from fuzzer i on.
RECURSIVE MutChainFrom(_, _, _, _)
MutChainFrom(chain, i, step, buf) ==
    IF i > Len(chain) THEN {buf}
    ELSE UNION {MutChainFrom(chain, i + 1, step, nb) :
                nb \in append_fuzzed(chain[i], step, buf)}

\* The chain gone through from its last fuzzer to its first.
FuzzChainGetReversed(self) ==
    MutChainFrom([i \in 1..Len(self.chain) |-> self.chain[Len(self.chain) + 1 - i]],
                 1, self.step, << >>)

\* FuzzChain::get: the buffers it can return.
FuzzChain_get(self) == MutChainFrom(self.chain, 1, self.step, << >>)

\* The step advanced once for every fuzzer of the chain.
FuzzChainStepPerFuzzer(self) == self.step + Len(self.chain)

\* self.step += 1
FuzzChainStep(self) == self.step + 1

\* The chains RunTimeManager holds after load_fcrtm.
FcRtm ==
    [fc0 |-> << >>,
     fc1 |-> << LoopFixedStrings(<< << "A" >>, << "B", "C" >> >>),
                LoopFixedStrings(<< << "x" >>, << "y" >>, << "z" >> >>) >>,
     fcr |-> << RandomFixedStrings(<< << "p" >>, << "q" >> >>),
                LoopFixedStrings(<< << "0" >>, << "1" >> >>) >>]

\* RunTimeManager::fcimmuts
fcimmuts(fcid) == IF fcid \in DOMAIN FcRtm THEN Ok(FcRtm[fcid]) ELSE Panic

\* The step after the increment.
FcGetStepAfterIncrement == stepu + 1

\* The step fcget hands to the chain.
FcGetStep == stepu

RunFcGet ==
    /\ Exec("FcGet")
    /\ IF fcimmuts(CurOp.a[1]).ok
       THEN \E gotfuzz \in FuzzChainImmuts_get(fcimmuts(CurOp.a[1]).v, FcGetStep) :
               /\ varadd_buf(CurOp.a[2], gotfuzz)
               /\ stepu' = stepu + 1
               /\ fcsteps' = Append(fcsteps, FcGetStep)
               /\ Fall
       ELSE Abort /\ UNCHANGED << data, stepu, fcsteps >>
    /\ UNCHANGED << iobs, callstack, locals, iolog >>

\* ------------------------------------------------------------------------
\* I/O bridges
\* ------------------------------------------------------------------------

\* IOBridge::new: the bridge an address gives; a failed open gives None.
IOBridge_new(ioaddr) ==
    CASE ioaddr = "console" -> {"Console"}
      [] ioaddr = "file" -> {"File", "None"}
      [] ioaddr = "tcp" -> {"TcpClient", "None"}
      [] OTHER -> {"None"}

\* Result of write, flush and close: Ok or Err.
IoResults == {"Ok", "Err"}

\* One call on a bridge: close, new, write, flush or read, and what it gave.
IoEvent(ev, ioid, r) == [ev |-> ev, id |-> ioid, r |-> r]

\* An iobnew that drops the bridge it replaces without closing it.
Close4NewSkipped(ioid) == {<< >>}

\* The close iobnew makes on a bridge already under ioid, unless that bridge
\* is IOBridge::None: the calls it adds, one choice per result.
Close4New(ioid) ==
    IF ioid \in DOMAIN iobs /\ iobs[ioid] # "None"
    THEN {<< IoEvent("close", ioid, gotr) >> : gotr \in IoResults}
    ELSE {<< >>}

RunIobNew ==
    /\ Exec("IobNew")
    /\ \E closed \in Close4New(CurOp.a[1]), zenio \in IOBridge_new(CurOp.a[2]) :
          /\ iobs' = MapInsert(iobs, CurOp.a[1], zenio)
          /\ iolog' = iolog \o closed \o << IoEvent("new", CurOp.a[1], zenio) >>
    /\ Fall
    /\ UNCHANGED << data, stepu, callstack, locals, fcsteps >>

\* An iobwrite that counts itself as a fuzzing step.
RunIobWriteCountsStep ==
    /\ Exec("IobWrite")
    /\ IF CurOp.a[2] \in DOMAIN bufs /\ CurOp.a[1] \in DOMAIN iobs
       THEN \E gotr \in IoResults :
               /\ iolog' = Append(iolog, IoEvent("write", CurOp.a[1], gotr))
               /\ stepu' = stepu + 1
               /\ Fall
       ELSE Abort /\ stepu' = stepu /\ iolog' = iolog
    /\ UNCHANGED << data, iobs, callstack, locals, fcsteps >>

RunIobWrite ==
    /\ Exec("IobWrite")
    /\ IF CurOp.a[2] \in DOMAIN bufs /\ CurOp.a[1] \in DOMAIN iobs
       THEN \E gotr \in IoResults :
               /\ iolog' = Append(iolog, IoEvent("write", CurOp.a[1], gotr))
               /\ Fall
       ELSE Abort /\ iolog' = iolog
    /\ UNCHANGED << data, iobs, stepu, callstack, locals, fcsteps >>

\* An iobflush that unwraps the result of flush.
RunIobFlushUnwraps ==
    /\ Exec("IobFlush")
    /\ IF CurOp.a[1] \in DOMAIN iobs
       THEN \E gotr \in IoResults :
               /\ iolog' = Append(iolog, IoEvent("flush", CurOp.a[1], gotr))
               /\ IF gotr = "Ok" THEN Fall ELSE Abort
       ELSE Abort /\ iolog' = iolog
    /\ UNCHANGED << data, iobs, stepu, callstack, locals, fcsteps >>

RunIobFlush ==
    /\ Exec("IobFlush")
    /\ IF CurOp.a[1] \in DOMAIN iobs
       THEN \E gotr \in IoResults :
               /\ iolog' = Append(iolog, IoEvent("flush", CurOp.a[1], gotr))
               /\ Fall
       ELSE Abort /\ iolog' = iolog
    /\ UNCHANGED << data, iobs, stepu, callstack, locals, fcsteps >>

\* Byte a bridge delivers on read.
ReadByte == 1

\* IOBridge::read(buf): Err, or Ok(n) with the first n bytes of buf filled.
IOBridge_read(buf) ==
    {[ok |-> FALSE, n |-> 0, buf |-> buf]} \cup
    {[ok |-> TRUE, n |-> n,
      buf |-> [i \in 1..Len(buf) |-> IF i <= n THEN ReadByte ELSE buf[i]]] :
     n \in 0..Len(buf)}

\* Vec::resize(new_len, 0)
Resize(buf, newlen) == [i \in 1..newlen |-> IF i <= Len(buf) THEN buf[i] ELSE 0]

RunIobRead ==
    /\ Exec("IobRead")
    /\ IF CurOp.a[2] \in DOMAIN bufs /\ CurOp.a[1] \in DOMAIN iobs
       THEN \E gotr \in IOBridge_read(bufs[CurOp.a[2]]) :
               IF gotr.ok
               THEN /\ bufs' = MapInsert(bufs, CurOp.a[2], Resize(gotr.buf, gotr.n))
                    /\ iolog' = Append(iolog, IoEvent("read", CurOp.a[1], "Ok"))
                    /\ Fall
               ELSE /\ bufs' = bufs
                    /\ iolog' = Append(iolog, IoEvent("read", CurOp.a[1], "Err"))
                    /\ Abort
       ELSE bufs' = bufs /\ iolog' = iolog /\ Abort
    /\ UNCHANGED << strs, ints, iobs, stepu, callstack, locals, fcsteps >>

RunIobClose ==
    /\ Exec("IobClose")
    /\ IF CurOp.a[1] \in DOMAIN iobs
       THEN \E gotr \in IoResults :
               /\ iobs' = MapRemove(iobs, CurOp.a[1])
               /\ iolog' = Append(iolog, IoEvent("close", CurOp.a[1], gotr))
               /\ Fall
       ELSE iobs' = iobs /\ iolog' = iolog /\ Abort
    /\ UNCHANGED << data, stepu, callstack, locals, fcsteps >>

RunSleepMSec ==
    /\ Exec("SleepMSec")
    /\ \E msec \in get_usize(CurOp.d[1]) : IF msec.ok THEN Fall ELSE Abort
    /\ UNCHANGED << data, iobs, stepu, callstack, locals, fcsteps, iolog >>


\* ------------------------------------------------------------------------
\* Buffers
\* ------------------------------------------------------------------------

Zeros(size) == [i \in 1..size |-> 0]

RunBufNew ==
    /\ Exec("BufNew")
    /\ \E bufsize \in get_usize(CurOp.d[1]) :
          IF bufsize.ok THEN varadd_buf(CurOp.a[1], Zeros(bufsize.v)) /\ Fall
          ELSE Abort /\ UNCHANGED data
    /\ UNCHANGED << iobs, stepu, callstack, locals, fcsteps, iolog >>

RunLetBuf ==
    /\ Exec("LetBuf")
    /\ \E vdata \in get_bufvu8(CurOp.d[1]) :
          IF vdata.ok THEN varadd_buf(CurOp.a[1], vdata.v) /\ Fall
          ELSE Abort /\ UNCHANGED data
    /\ UNCHANGED << iobs, stepu, callstack, locals, fcsteps, iolog >>

RunLetBufStr ==
    /\ Exec("LetBufStr")
    /\ \E vdata \in get_string(CurOp.d[1]) :
          IF vdata.ok THEN varadd_buf(CurOp.a[1], StrBytes(vdata.v)) /\ Fall
          ELSE Abort /\ UNCHANGED data
    /\ UNCHANGED << iobs, stepu, callstack, locals, fcsteps, iolog >>

\* usize::MAX (usize has the width of isize) and u16::MAX
UMax == (2 ^ IntBits) - 1

U16Max == (2 ^ 16) - 1

\* An unsigned operator: out of range panics (overflow checks) or wraps.
UChecked(x, max) ==
    IF x \in 0..max THEN {Ok(x)} ELSE {Panic, Ok(x % (max + 1))}

\* Offsets and values the random generator is sampled at, below width.
RandBelow(width) == IF width <= 4 THEN 0..(width - 1) ELSE {0, width - 1}

\* Counts rand::random::<usize>() % len is sampled at.
RandCounts(len) == {c \in 0..MaxRandCount : c < len}

\* The values Buf8Randomize computes before its loop, from the five fetched
\* integers: trandcount, tstartoffset, offsetwidth, startval, valwidth.
B8rSetup(buflen, randcount, startoffset, endoffset, startv, endv) ==
    LET trandcounts ==
            IF randcount < 0
            THEN (IF buflen = 0 THEN {Panic} ELSE {Ok(c) : c \in RandCounts(buflen)})
            ELSE {Ok(randcount)}
        tstartoffset == IF startoffset < 0 THEN 0 ELSE startoffset
        tendoffsets ==
            IF endoffset < 0 THEN UChecked(buflen - 1, UMax) ELSE {Ok(endoffset)}
        startval == startv % 256
        endval == endv % 256
        offsetwidths(tend) ==
            UNION {IF ~d.ok THEN {Panic} ELSE UChecked(d.v + 1, UMax) :
                   d \in UChecked(tend - tstartoffset, UMax)}
        valwidths ==
            UNION {IF ~d.ok THEN {Panic} ELSE UChecked(d.v + 1, U16Max) :
                   d \in UChecked(endval - startval, U16Max)}
    IN UNION {IF ~tc.ok \/ ~te.ok THEN {Panic}
              ELSE UNION {IF ~ow.ok \/ ~vw.ok THEN {Panic}
                          ELSE {[ok |-> TRUE, trandcount |-> tc.v,
                                 tstartoffset |-> tstartoffset,
                                 offsetwidth |-> ow.v, startval |-> startval,
                                 valwidth |-> vw.v]} :
                          ow \in offsetwidths(te.v), vw \in valwidths} :
              tc \in trandcounts, te \in tendoffsets}

\* An index that forgets the start offset.
CurIndFromZero(p, o) == o

\* curind, the random number modulo offsetwidth being o
CurInd(p, o) == p.tstartoffset + o

\* One pass of the loop body: the buffers it can leave.
B8rOnce(buf, p) ==
    IF p.offsetwidth = 0 \/ p.valwidth = 0 THEN {Panic}
    ELSE UNION {IF ~curind.ok \/ ~curval.ok THEN {Panic}
                ELSE IF curind.v >= Len(buf) THEN {Panic}
                ELSE {Ok([buf EXCEPT ![curind.v + 1] = curval.v])} :
                curind \in UNION {UChecked(CurInd(p, o), UMax) :
                                  o \in RandBelow(p.offsetwidth)},
                curval \in UNION {UChecked(p.startval + (w % 256), 255) :
                                  w \in RandBelow(p.valwidth)}}

\* for _i in 0..trandcount
RECURSIVE B8rLoop(_, _, _)
B8rLoop(buf, todo, p) ==
    IF todo = 0 THEN {Ok(buf)}
    ELSE UNION {IF ~r.ok THEN {Panic} ELSE B8rLoop(r.v, todo - 1, p) :
                r \in B8rOnce(buf, p)}

\* Op::Buf8Randomize.run up to the final varadd_buf.
B8rResults(bufid, dms) ==
    IF bufid \notin DOMAIN bufs THEN {Panic}
    ELSE UNION {IF ~rc.ok \/ ~so.ok \/ ~eo.ok \/ ~sv.ok \/ ~ev.ok THEN {Panic}
                ELSE UNION {IF ~p.ok THEN {Panic}
                            ELSE B8rLoop(bufs[bufid], p.trandcount, p) :
                            p \in B8rSetup(Len(bufs[bufid]), rc.v, so.v, eo.v,
                                           sv.v, ev.v)} :
                rc \in get_isize(dms[1]), so \in get_isize(dms[2]),
                eo \in get_isize(dms[3]), sv \in get_isize(dms[4]),
                ev \in get_isize(dms[5])}

RunBuf8Randomize ==
    /\ Exec("Buf8Randomize")
    /\ \E r \in B8rResults(CurOp.a[1], CurOp.d) :
          IF r.ok THEN varadd_buf(CurOp.a[1], r.v) /\ Fall
          ELSE Abort /\ UNCHANGED data
    /\ UNCHANGED << iobs, stepu, callstack, locals, fcsteps, iolog >>

\* The loop of BufsMerge over the source names.
RECURSIVE BufsMergeFrom(_, _)
BufsMergeFrom(srcbufids, destbuf) ==
    IF srcbufids = << >> THEN Ok(destbuf)
    ELSE IF Head(srcbufids) \notin DOMAIN bufs THEN Panic
    ELSE BufsMergeFrom(Tail(srcbufids), destbuf \o bufs[Head(srcbufids)])

RunBufsMerge ==
    /\ Exec("BufsMerge")
    /\ LET r == BufsMergeFrom(Tail(CurOp.a), << >>)
       IN IF r.ok THEN varadd_buf(CurOp.a[1], r.v) /\ Fall
          ELSE Abort /\ UNCHANGED data
    /\ UNCHANGED << iobs, stepu, callstack, locals, fcsteps, iolog >>

\* One source of BufMerged rendered per the merge type.
MergedSrc(mtype, srcdm) ==
    IF mtype = "b" THEN get_bufvu8(srcdm)
    ELSE {IF t.ok THEN Ok(StrBytes(t.v)) ELSE Panic : t \in get_string(srcdm)}

\* The loop of BufMerged over the sources.
RECURSIVE BufMergedFrom(_, _, _)
BufMergedFrom(mtype, srcdms, destbuf) ==
    IF srcdms = << >> THEN {Ok(destbuf)}
    ELSE UNION {IF ~sbuf.ok THEN {Panic}
                ELSE BufMergedFrom(mtype, Tail(srcdms), destbuf \o sbuf.v) :
                sbuf \in MergedSrc(mtype, Head(srcdms))}

RunBufMerged ==
    /\ Exec("BufMerged")
    /\ \E r \in BufMergedFrom(CurOp.x, CurOp.d, << >>) :
          IF r.ok THEN varadd_buf(CurOp.a[1], r.v) /\ Fall
          ELSE Abort /\ UNCHANGED data
    /\ UNCHANGED << iobs, stepu, callstack, locals, fcsteps, iolog >>


\* ------------------------------------------------------------------------
\* Programs: what VM::compile leaves in ops, lbls and funcs
\* ------------------------------------------------------------------------

Prg(o, l, f) == [ops |-> o, lbls |-> l, funcs |-> f]

Func(idx, args) == [idx |-> idx, args |-> args]

\* Integers at the edges of isize and around zero.
EdgeInts == {MinInt, MinInt + 1, 0 - 1, 0, 1, 2, MaxInt - 1, MaxInt}

\* One ALU instruction on two edge integers.
AluPrograms ==
    {Prg(<< Alu(aluop, "d", IntLiteral(A), IntLiteral(B)) >>, EmptyMap, EmptyMap) :
     aluop \in {"Add", "Sub", "Mult", "Div", "Mod"}, A \in EdgeInts, B \in EdgeInts}

\* One conditional goto on two edge integers, its target two further.
CondPrograms ==
    {Prg(<< If(cop, IntLiteral(A), IntLiteral(B), "goto", "T", << >>), Nop, Nop >>,
         [T |-> 2], EmptyMap) :
     cop \in {"IfLtInt", "IfGtInt", "IfLeInt", "IfGeInt"},
     A \in EdgeInts, B \in EdgeInts}

\* One checkjump over the labels L1, L2, L3, __NEXT__ and an unbound one.
CheckJumpPrograms ==
    {Prg(<< CheckJump(IntLiteral(A), IntLiteral(B), lt, eq, gt), Nop, Nop, Nop >>,
         [L1 |-> 1, L2 |-> 2, L3 |-> 3], EmptyMap) :
     A \in {MinInt, 0 - 1, 0, 1, MaxInt}, B \in {MinInt, 0, MaxInt},
     lt \in {"L1", "__NEXT__", "nolabel"}, eq \in {"L2", "__NEXT__", "nolabel"},
     gt \in {"L3", "__NEXT__", "nolabel"}}

Str(c1, c2) == << c1, c2 >>

\* a an int, b a string, c a buffer, io a bridge.
GenPrelude ==
    << LetInt("a", IntLiteral(1)), LetStr("b", StringLiteral(Str("0", "7"))),
       BufNew("c", IntLiteral(2)), IobNew("io", "console") >>

GenOps ==
    { Nop, Jump("__NEXT__"),
      LetStr("a", StringLiteral(Str("h", "i"))), LetStr("c", StringVar("b")),
      LetInt("b", IntLiteral(0 - 3)), LetInt("c", StringVar("b")),
      LetInt("a", IntVar("b")), LetInt("b", XTimeStamp),
      Inc("a"), Dec("b"),
      Alu("Add", "b", IntVar("a"), IntLiteral(MaxInt)),
      IobNew("io", "tcp"), IobWrite("io", "c"), IobFlush("io"),
      IobRead("io", "c"), IobClose("io"),
      SleepMSec(IntVar("a")),
      FcGet("fc1", "a"), FcGet("fcr", "b"), FcGet("nochain", "a"),
      BufNew("a", AnyVar("c")),
      LetBuf("a", BufData(<< 1, 2 >>)), LetBuf("b", AnyVar("a")),
      LetBuf("a", XRandomBytes(1)),
      LetBufStr("a", AnyVar("c")),
      Buf8Randomize("c", IntLiteral(1), IntLiteral(0), IntLiteral(0 - 1),
                    IntLiteral(1), IntLiteral(2)),
      Buf8Randomize("a", IntLiteral(0 - 1), IntLiteral(0 - 1), IntLiteral(0 - 1),
                    IntLiteral(0), IntLiteral(255)),
      BufsMerge("a", << "c", "c" >>),
      BufMerged("b", "a", << AnyVar("a"), AnyVar("c") >>),
      BufMerged("s", "b", << AnyVar("b"), StringLiteral(Str(" ", "x")) >>) }

\* The prelude followed by every sequence of GenLen instructions of GenOps.
GenPrograms ==
    {Prg(GenPrelude \o body, EmptyMap, EmptyMap) : body \in [1..GenLen -> GenOps]}

CtlOps ==
    { Nop, Inc("a"), Ret,
      Call("f", << "a" >>), Call("g", << "x", "a" >>), Call("f", << >>),
      Call("nofunc", << "a" >>),
      Jump("L0"), Jump("LE"),
      If("IfLtInt", AnyVar("a"), IntLiteral(2), "call", "f", << "x" >>),
      If("IfEqBuf", AnyVar("a"), IntLiteral(1), "goto", "LE", << >>),
      CheckJump(IntVar("a"), IntLiteral(1), "__NEXT__", "LE", "L0"),
      FcGet("fc1", "x") }

\* letint a 0, then every sequence of CtlLen instructions of CtlOps; f starts
\* at the first and g at the second of them.
CtlPrograms ==
    {Prg(<< LetInt("a", IntLiteral(0)) >> \o body,
         [L0 |-> 0, LE |-> CtlLen + 1],
         [f |-> Func(1, << "x" >>), g |-> Func(2, << "y", "x" >>)]) :
     body \in [1..CtlLen -> CtlOps]}

\* letint n 1 / call f n / goto end / !func f x / inc x / ret
AliasProgram ==
    Prg(<< LetInt("n", IntLiteral(1)), Call("f", << "n" >>), Jump("end"),
           Inc("x"), Ret >>,
        [end |-> 5], [f |-> Func(3, << "x" >>)])

\* letint i 0 / !label L / inc i / iflt.i i 3 goto L
LoopProgram ==
    Prg(<< LetInt("i", IntLiteral(0)), Inc("i"),
           If("IfLtInt", AnyVar("i"), IntLiteral(3), "goto", "L", << >>) >>,
        [L |-> 1], EmptyMap)

\* f passes its formal on to g; g calls h and everything returns.
NestedProgram ==
    Prg(<< LetInt("n", IntLiteral(1)), Call("f", << "n" >>), Jump("end"),
           Call("g", << "x", "n" >>), Ret,
           Call("h", << >>), Ret,
           Ret >>,
        [end |-> 8],
        [f |-> Func(3, << "x" >>), g |-> Func(5, << "y", "z" >>),
         h |-> Func(7, << >>)])

\* call f n / goto end / !func f x / call g x / call g x / ret / !func g y / ret
TwiceProgram ==
    Prg(<< Call("f", << "n" >>), Jump("end"),
           Call("g", << "x" >>), Call("g", << "x" >>), Ret,
           Ret >>,
        [end |-> 6],
        [f |-> Func(2, << "x" >>), g |-> Func(5, << "y" >>)])

\* call f a / call g x / goto end / !func f x / ret / !func g y / ret
ReturnedProgram ==
    Prg(<< Call("f", << "a" >>), Call("g", << "x" >>), Jump("end"), Ret, Ret >>,
        [end |-> 5],
        [f |-> Func(3, << "x" >>), g |-> Func(4, << "y" >>)])

ScenarioPrograms ==
    {AliasProgram, LoopProgram, NestedProgram, TwiceProgram, ReturnedProgram}

\* letbuf b 1 2 3, then one buf8randomize of b over every count, start and end
\* offset around the buffer's ends and two value ranges.
B8rPrograms ==
    {Prg(<< LetBuf("b", BufData(<< 1, 2, 3 >>)),
            Buf8Randomize("b", IntLiteral(rc), IntLiteral(so), IntLiteral(eo),
                          IntLiteral(sv), IntLiteral(ev)) >>,
         EmptyMap, EmptyMap) :
     rc \in (0 - 1)..2, so \in (0 - 1)..3, eo \in (0 - 1)..3,
     sv \in {65}, ev \in {64, 66}}

\* The operands Op::compile gives a buf8randomize that names its buffer only.
B8rDefaults ==
    << IntLiteral(0 - 1), IntLiteral(0 - 1), IntLiteral(0 - 1), IntLiteral(0),
       IntLiteral(255) >>

\* bufnew b n / buf8randomize b, for every length up to MaxBufLen.
B8rDefaultPrograms ==
    {Prg(<< BufNew("b", IntLiteral(n)),
            Buf8Randomize("b", B8rDefaults[1], B8rDefaults[2], B8rDefaults[3],
                          B8rDefaults[4], B8rDefaults[5]) >>,
         EmptyMap, EmptyMap) : n \in 0..MaxBufLen}

Programs ==
    AluPrograms \cup CondPrograms \cup CheckJumpPrograms \cup GenPrograms
    \cup CtlPrograms \cup ScenarioPrograms \cup B8rPrograms
    \cup B8rDefaultPrograms

\* Arguments and result of a library call: f the function, i an integer,
\* s and t strings or byte vectors.
FnIn(f, i, s) == [f |-> f, i |-> i, s |-> s]

FnOut(ok, i, s, t) == [ok |-> ok, i |-> i, s |-> s, t |-> t]

NoIn == FnIn("", 0, << >>)

NoOut == FnOut(FALSE, 0, << >>, << >>)

\* ------------------------------------------------------------------------
\* The machine
\* ------------------------------------------------------------------------

\* VM::new and Context::new, after compile has filled ops, lbls and funcs.
Init ==
    /\ \E p \in Programs : ops = p.ops /\ lbls = p.lbls /\ funcs = p.funcs
    /\ big_endian \in BOOLEAN
    /\ strs = EmptyMap
    /\ ints = EmptyMap
    /\ bufs = EmptyMap
    /\ iobs = EmptyMap
    /\ stepu = 0
    /\ iptr = 0
    /\ iptr_commonupdate = TRUE
    /\ callstack = << >>
    /\ locals = << >>
    /\ status = "run"
    /\ nsteps = 0
    /\ last = [at |-> 0 - 1, opdo |-> FALSE, label |-> ""]
    /\ fcsteps = << >>
    /\ iolog = << >>
    /\ fin = NoIn
    /\ fout = NoOut
    /\ fstage = "off"
    /\ NoChains

Next ==
    \/ Halt
    \/ RunNop
    \/ RunLetStr
    \/ RunLetInt
    \/ RunInc
    \/ RunDec
    \/ RunAlu
    \/ RunIobNew
    \/ RunIobWrite
    \/ RunIobFlush
    \/ RunIobRead
    \/ RunIobClose
    \/ RunIf
    \/ RunCheckJump
    \/ RunJump
    \/ RunCall
    \/ RunRet
    \/ RunSleepMSec
    \/ RunFcGet
    \/ RunBufNew
    \/ RunLetBuf
    \/ RunLetBufStr
    \/ RunBuf8Randomize
    \/ RunBufsMerge
    \/ RunBufMerged

Spec == Init /\ [][Next]_vars

\* ------------------------------------------------------------------------
\* Compiling program text: datautils::next_token, DataM::compile, Op::compile
\* ------------------------------------------------------------------------

\* The text of a name, as the key of a namespace.
RECURSIVE Join(_)
Join(s) == IF s = << >> THEN "" ELSE Head(s) \o Join(Tail(s))

StartsWith(s, prefix) ==
    Len(s) >= Len(prefix) /\ SubSeq(s, 1, Len(prefix)) = prefix

\* The index of the first ' ' of s at or after i, 0 when there is none.
RECURSIVE SpaceAt(_, _)
SpaceAt(s, i) ==
    IF i > Len(s) THEN 0 ELSE IF s[i] = " " THEN i ELSE SpaceAt(s, i + 1)

\* str::split_once(' '): << >> for None, else <<before, after>>
split_once(s) ==
    LET k == SpaceAt(s, 1)
    IN IF k = 0 THEN << >>
       ELSE << SubSeq(s, 1, k - 1), SubSeq(s, k + 1, Len(s)) >>

\* str::splitn(2, ' ')
splitn2(s) == IF SpaceAt(s, 1) = 0 THEN << s >> ELSE split_once(s)

\* The index of the last char of the word of t that holds its i-th char.
RECURSIVE WordEnd(_, _)
WordEnd(t, i) ==
    IF i > Len(t) \/ IsWhitespace(t[i]) THEN i - 1 ELSE WordEnd(t, i + 1)

\* str::split_whitespace, t being the text from its next word on.
RECURSIVE split_whitespace(_)
SplitWords(t, wordend) ==
    IF t = << >> THEN << >>
    ELSE << SubSeq(t, 1, wordend) >> \o split_whitespace(SubSeq(t, wordend + 1, Len(t)))

split_whitespace(s) == SplitWords(TrimStart(s), WordEnd(TrimStart(s), 1))

\* The texts of a sequence of words from the second on.
JoinRest(parts) == [k \in 1..(Len(parts) - 1) |-> Join(parts[k + 1])]

\* next_token's locals before its loop; itokend counts the chars consumed.
NtStart(ins) ==
    [tok |-> << >>, bstart |-> TRUE, bstringmode |-> FALSE,
     bescmode |-> FALSE, itokend |-> Len(ins), stop |-> FALSE]

\* One iteration of next_token's loop, on the i-th char ch.
NtStep(st, ch, i) ==
    IF IsWhitespace(ch) /\ st.bstart THEN st
    ELSE IF ch = "\"" /\ st.bstart
    THEN [st EXCEPT !.bstringmode = TRUE, !.bstart = FALSE, !.tok = Append(@, ch)]
    ELSE IF st.bstringmode
    THEN IF ch = "\"" /\ ~st.bescmode
         THEN [st EXCEPT !.bstart = FALSE, !.tok = Append(@, ch),
                         !.itokend = i, !.stop = TRUE]
         ELSE IF st.bescmode
         THEN [st EXCEPT !.bstart = FALSE, !.tok = Append(@, ch), !.bescmode = FALSE]
         ELSE IF ch = "\\"
         THEN [st EXCEPT !.bstart = FALSE, !.tok = Append(@, ch), !.bescmode = TRUE]
         ELSE [st EXCEPT !.bstart = FALSE, !.tok = Append(@, ch)]
    ELSE IF ch = " "
    THEN [st EXCEPT !.bstart = FALSE, !.itokend = i, !.stop = TRUE]
    ELSE [st EXCEPT !.bstart = FALSE, !.tok = Append(@, ch)]

RECURSIVE NtFrom(_, _, _)
NtFrom(st, incv, i) ==
    IF i > Len(incv) \/ st.stop THEN st
    ELSE NtFrom(NtStep(st, incv[i], i), incv, i + 1)

\* What next_token returns after its loop: Ok((outs, tok)).
NtReturn(st, ins) ==
    << IF st.itokend = Len(ins) THEN << >> ELSE SubSeq(ins, st.itokend + 1, Len(ins)),
       st.tok >>

\* datautils::next_token
next_token(ins) == NtReturn(NtFrom(NtStart(ins), ins, 1), ins)

\* u8::from_str_radix(s, 16) on two chars, -1 for Err: two digits, or a plus
\* sign and one digit.
u8_from_hex_pair(c1, c2) ==
    IF c1 = "+" THEN DigitVal(c2, 16)
    ELSE IF DigitVal(c1, 16) < 0 \/ DigitVal(c2, 16) < 0 THEN 0 - 1
    ELSE DigitVal(c1, 16) * 16 + DigitVal(c2, 16)

\* One byte of vu8_from_hex, before the bytes that follow.
HexByte(cu8, rest) ==
    IF cu8 < 0 \/ ~rest.ok THEN Panic ELSE Ok(<< cu8 >> \o rest.v)

\* datautils::vu8_from_hex: two hex digits a byte; a slice past the end panics.
RECURSIVE vu8_from_hex(_)
vu8_from_hex(ins) ==
    IF ins = << >> THEN Ok(<< >>)
    ELSE IF Len(ins) < 2 THEN Panic
    ELSE HexByte(u8_from_hex_pair(ins[1], ins[2]), vu8_from_hex(SubSeq(ins, 3, Len(ins))))

\* hex.rs, the loop of vu8_from_hex on a string of even length, not empty.
RECURSIVE HexRsPairs(_)
HexRsPairs(ins) ==
    IF ins = << >> THEN Ok(<< >>)
    ELSE HexByte(u8_from_hex_pair(ins[1], ins[2]), HexRsPairs(SubSeq(ins, 3, Len(ins))))

\* hex::vu8_from_hex: Err for an odd length and for a pair that is no number.
\* On the empty string ins.len()-1 overflows: a panic where overflow is
\* checked, and elsewhere a range up to usize::MAX whose first slice
\* &ins[0..2] is out of bounds, a panic too.  ok is "Ok", "Err" or "panic".
hex_vu8_from_hex(ins) ==
    IF Len(ins) % 2 # 0 THEN [ok |-> "Err", v |-> << >>]
    ELSE IF Len(ins) = 0 THEN [ok |-> "panic", v |-> << >>]
    ELSE IF HexRsPairs(ins).ok THEN [ok |-> "Ok", v |-> HexRsPairs(ins).v]
    ELSE [ok |-> "Err", v |-> << >>]

\* hex.rs, the table hex of hex_from_vu8.
HexRsDigits ==
    << "0", "1", "2", "3", "4", "5", "6", "7", "8", "9", "A", "B", "C", "D", "E", "F" >>

\* hex::hex_from_vu8
RECURSIVE hex_hex_from_vu8(_)
hex_hex_from_vu8(inv) ==
    IF inv = << >> THEN << >>
    ELSE << HexRsDigits[(Head(inv) \div 16) + 1], HexRsDigits[(Head(inv) % 16) + 1] >>
         \o hex_hex_from_vu8(Tail(inv))

\* usize::from_str_radix(s, 10), on the digits after an optional plus sign
UsizeOf(digits) ==
    IF digits = << >> \/ Magnitude(digits, 10, 0) < 0
       \/ Magnitude(digits, 10, 0) > UMax
    THEN Panic ELSE Ok(Magnitude(digits, 10, 0))

usize_from_str(s) == UsizeOf(IF s # << >> /\ Head(s) = "+" THEN Tail(s) ELSE s)

IsNumeric(c) == DigitVal(c, 10) >= 0

IsAlphabetic(c) ==
    \E k \in (65..90) \cup (97..122) : c = AsciiTable[k - 31]

\* The operand built from a conversion's result, a panic when it failed.
Expect(r, build(_)) == IF r.ok THEN Ok(build(r.v)) ELSE Panic

\* DataM::compile, the string literal tdata = next_token(sdata) gave.
StringLiteralOf(tdata) ==
    IF Len(tdata[2]) > 0 THEN Panic
    ELSE IF tdata[1] = << >> \/ Head(tdata[1]) # "\"" THEN Panic
    ELSE IF Len(tdata[1]) < 2 \/ tdata[1][Len(tdata[1])] # "\"" THEN Panic
    ELSE Ok(StringLiteral(SubSeq(tdata[1], 2, Len(tdata[1]) - 1)))

\* DataM::compile, on sdata trimmed and not empty.
DataMOf(sdata, schar, echar, stype) ==
    IF IsNumeric(schar) \/ schar \in {"+", "-"}
    THEN Expect(intvalue(sdata), IntLiteral)
    ELSE IF Len(sdata) >= 2 /\ (schar = "\"" \/ echar = "\"")
    THEN (IF schar # echar THEN Panic ELSE StringLiteralOf(next_token(sdata)))
    ELSE IF Len(sdata) > 2 /\ StartsWith(sdata, << "$", "0", "x" >>)
    THEN Expect(vu8_from_hex(SubSeq(sdata, 4, Len(sdata))), BufData)
    ELSE IF Len(sdata) > 2 /\ StartsWith(sdata, << "_", "_" >>)
    THEN (IF Join(sdata) = "__TIME__STAMP__" THEN Ok(XTimeStamp)
          ELSE IF Len(sdata) >= 17 /\ Join(SubSeq(sdata, 1, 17)) = "__RANDOM__BYTES__"
          THEN Expect(usize_from_str(SubSeq(sdata, 18, Len(sdata))), XRandomBytes)
          ELSE Panic)
    ELSE IF ~IsAlphabetic(schar) THEN Panic
    ELSE IF stype = "isize" THEN Ok(IntVar(Join(sdata)))
    ELSE IF stype = "string" THEN Ok(StringVar(Join(sdata)))
    ELSE IF stype = "any" THEN Ok(AnyVar(Join(sdata)))
    ELSE Panic

\* DataM::compile, once sdata is trimmed.
DataMTrimmed(sdata, stype) ==
    IF sdata = << >> THEN Panic
    ELSE DataMOf(sdata, sdata[1], sdata[Len(sdata)], stype)

\* DataM::compile(sdata, stype, _): the operand, or a panic.
DataM_compile(sdata, stype) == DataMTrimmed(Trim(sdata), stype)

\* The mnemonics of Op::If and the condition each selects.
IfMnemonics ==
    [m \in {"iflt", "iflt.i", "ifgt", "ifgt.i", "ifle", "ifle.i", "ifge", "ifge.i",
            "ifeq", "ifeq.b", "ifeq.i", "ifeq.s", "ifne", "ifne.b", "ifne.i",
            "ifne.s"} |->
        CASE m \in {"iflt", "iflt.i"} -> "IfLtInt"
          [] m \in {"ifgt", "ifgt.i"} -> "IfGtInt"
          [] m \in {"ifle", "ifle.i"} -> "IfLeInt"
          [] m \in {"ifge", "ifge.i"} -> "IfGeInt"
          [] m \in {"ifeq", "ifeq.b", "ifeq.i", "ifeq.s"} -> "IfEqBuf"
          [] OTHER -> "IfNeBuf"]

\* Op::compile, the if* arm from its match on desttype on.
IfDest(cop, val1dm, val2dm, desttype, destdata, na) ==
    IF ~val1dm.ok \/ ~val2dm.ok THEN Panic
    ELSE IF desttype = "goto"
    THEN Ok(If(cop, val1dm.v, val2dm.v, "goto", Join(destdata), << >>))
    ELSE IF desttype = "call" /\ na # << >>
    THEN Ok(If(cop, val1dm.v, val2dm.v, "call", Join(na[1]), JoinRest(na)))
    ELSE Panic

\* Op::compile, the if* arm once arg0, arg1 and args are taken.
IfArgs(sop, arg0, arg1, args) ==
    IF Len(args) # 2 THEN Panic
    ELSE IfDest(IfMnemonics[sop], DataM_compile(arg0, "any"),
                DataM_compile(arg1, "any"), Join(args[1]), args[2],
                split_whitespace(args[2]))

\* Op::compile, the if* arm after its second next_token: arg1 is the first
\* member of the pair, the line goes on with the second.
IfNext(sop, arg0, next) == IfArgs(sop, arg0, next[1], splitn2(next[2]))

\* Op::compile, the if* arm after its first next_token: arg0 is the first
\* member of the pair, the second is scanned next.
IfFirst(sop, next) == IfNext(sop, next[1], next_token(next[2]))

\* Op::compile, the if* arm
IfCompile(sop, sargs) == IfFirst(sop, next_token(sargs))

\* Op::compile, the letstr and letint arms after split_once.
LetCompile(sop, vid_sval) ==
    IF vid_sval = << >> THEN Panic
    ELSE IF sop = "letstr"
    THEN Expect(DataM_compile(vid_sval[2], "string"),
                LAMBDA dm : LetStr(Join(vid_sval[1]), dm))
    ELSE Expect(DataM_compile(vid_sval[2], "isize"),
                LAMBDA dm : LetInt(Join(vid_sval[1]), dm))

\* The pieces of s between its occurrences of ' ', at most n of them.
RECURSIVE splitn(_, _)
SplitAt(s, n, k) ==
    IF k = 0 \/ n <= 1 THEN << s >>
    ELSE << SubSeq(s, 1, k - 1) >> \o splitn(SubSeq(s, k + 1, Len(s)), n - 1)

\* str::splitn(n, ' ')
splitn(s, n) == SplitAt(s, n, SpaceAt(s, 1))

\* str::split(" ")
split_space(s) == splitn(s, Len(s) + 1)

\* Op::compile, the iobnew arm: every option is key=value.
IobNewArgs(args, lioargs) ==
    IF Len(args) < 2 THEN Panic
    ELSE IF \E k \in 1..Len(lioargs) :
               Len(lioargs[k]) # 0 /\ \A j \in 1..Len(lioargs[k]) : lioargs[k][j] # "="
    THEN Panic
    ELSE Ok(IobNew(Join(args[1]), Join(args[2])))

IobNewCompile(args) ==
    IobNewArgs(args, split_space(IF Len(args) = 3 THEN args[3] ELSE << >>))

\* Op::compile, the arms that take two names: fcget, iobwrite and iobread.
PairCompile(sop, pair) ==
    IF pair = << >> THEN Panic
    ELSE IF sop = "fcget" THEN Ok(FcGet(Join(pair[1]), Join(pair[2])))
    ELSE IF sop = "iobwrite" THEN Ok(IobWrite(Join(pair[1]), Join(pair[2])))
    ELSE Ok(IobRead(Join(pair[1]), Join(pair[2])))

\* Op::compile, the call arm on what name_args returned.
CallCompile(na) == IF na = << >> THEN Panic ELSE Ok(Call(Join(na[1]), JoinRest(na)))

\* Op::compile, its match on sop: the arms of nop, letstr, letint, inc, dec,
\* the iob*, if*, jump, goto, call, ret and fcget; a mnemonic of none of
\* these is refused here as an unknown one is.
\* Op::compile, the bufmerged arm: mtype from sop.split_once('.'), 's' for the
\* suffix s and 'b' for the suffix b or none.
BufMergedType(sop) == IF sop = "bufmerged.s" THEN "s" ELSE "b"

\* Op::compile, the bufmerged arm: its while loop over the sources.  Each
\* round compiles tplus.0 and goes on with tplus.1.
RECURSIVE BufMergedLoop(_, _, _, _)
BufMergedPush(mtype, bufid, dm, tnext, vdm) ==
    IF ~dm.ok THEN Panic
    ELSE BufMergedLoop(mtype, bufid, tnext, Append(vdm, dm.v))

BufMergedRound(mtype, bufid, tplus, vdm) ==
    BufMergedPush(mtype, bufid, DataM_compile(tplus[1], "any"), tplus[2], vdm)

BufMergedLoop(mtype, bufid, tnext, vdm) ==
    IF Len(tnext) > 0 THEN BufMergedRound(mtype, bufid, next_token(tnext), vdm)
    ELSE Ok(BufMerged(mtype, bufid, vdm))

\* Op::compile, the bufmerged arm after sargs.split_once(' ').
BufMergedCompile(sop, bufid_srcs) ==
    IF bufid_srcs = << >> THEN Panic
    ELSE BufMergedLoop(BufMergedType(sop), Join(bufid_srcs[1]),
                       bufid_srcs[2], << >>)

OpArm(sop, sargs) ==
    IF sop = "nop" THEN Ok(Nop)
    ELSE IF sop \in {"letstr", "letint"} THEN LetCompile(sop, split_once(sargs))
    ELSE IF sop = "inc" THEN Ok(Inc(Join(sargs)))
    ELSE IF sop = "dec" THEN Ok(Dec(Join(sargs)))
    ELSE IF sop = "iobnew" THEN IobNewCompile(splitn(sargs, 3))
    ELSE IF sop \in {"iobwrite", "iobread", "fcget"}
    THEN PairCompile(sop, split_once(sargs))
    ELSE IF sop = "iobflush" THEN Ok(IobFlush(Join(sargs)))
    ELSE IF sop = "iobclose" THEN Ok(IobClose(Join(sargs)))
    ELSE IF sop \in DOMAIN IfMnemonics THEN IfCompile(sop, sargs)
    ELSE IF sop \in {"jump", "goto"} THEN Ok(Jump(Join(sargs)))
    ELSE IF sop = "call" THEN CallCompile(split_whitespace(sargs))
    ELSE IF sop = "ret" THEN Ok(Ret)
    ELSE IF sop \in {"bufmerged", "bufmerged.s", "bufmerged.b"}
    THEN BufMergedCompile(sop, split_once(sargs))
    ELSE Panic

\* Op::compile after opplus.split_once(' ')
OpSplit(opplus, op_and_args) ==
    IF op_and_args = << >> THEN OpArm(Join(opplus), << >>)
    ELSE OpArm(Join(op_and_args[1]), Trim(op_and_args[2]))

\* Op::compile(opplus)
Op_compile(opplus) == OpSplit(opplus, split_once(opplus))

\* What VM::compile has built so far; ok is FALSE once a line panicked.
Compiled(ok, o, l, f) == [ok |-> ok, ops |-> o, lbls |-> l, funcs |-> f]

\* VM::compile_directive, the !func arm
FuncDirective(st, parts) ==
    IF parts = << >> THEN [st EXCEPT !.ok = FALSE]
    ELSE [st EXCEPT !.funcs =
             MapInsert(@, Join(parts[1]), Func(Len(st.ops), JoinRest(parts)))]

\* VM::compile_directive after sdirplus.split_once(' ')
DirectiveArm(st, dir) ==
    IF dir = << >> THEN [st EXCEPT !.ok = FALSE]
    ELSE IF Join(dir[1]) = "!label"
    THEN [st EXCEPT !.lbls = MapInsert(@, Join(dir[2]), Len(st.ops))]
    ELSE IF Join(dir[1]) = "!func"
    THEN FuncDirective(st, split_whitespace(dir[2]))
    ELSE [st EXCEPT !.ok = FALSE]

\* VM::compile_directive
compile_directive(st, sdirplus) == DirectiveArm(st, split_once(sdirplus))

\* self.ops.push(Op::compile(sop).expect(..))
PushOp(st, op) ==
    IF op.ok THEN [st EXCEPT !.ops = Append(@, op.v)] ELSE [st EXCEPT !.ok = FALSE]

\* VM::compile, one line of its loop, trimmed.
CompileTrimmed(st, sop) ==
    IF ~st.ok THEN st
    ELSE IF sop = << >> \/ Head(sop) = "#" THEN st
    ELSE IF Head(sop) = "!" THEN compile_directive(st, sop)
    ELSE PushOp(st, Op_compile(sop))

CompileLine(st, line) == CompileTrimmed(st, Trim(line))

RECURSIVE CompileFrom(_, _, _)
CompileFrom(st, lines, i) ==
    IF i > Len(lines) THEN st
    ELSE CompileFrom(CompileLine(st, lines[i]), lines, i + 1)

\* VM::compile(ops) on a machine just constructed
VM_compile(lines) == CompileFrom(Compiled(TRUE, << >>, EmptyMap, EmptyMap), lines, 1)

\* iflt.i i $N goto L
IfLine(n) ==
    << "i", "f", "l", "t", ".", "i", " ", "i", " ", "$" >> \o to_string(n)
    \o << " ", "g", "o", "t", "o", " ", "L" >>

\* letint i 0 / !label L / inc i / lastline
LoopText(lastline) ==
    << << "l", "e", "t", "i", "n", "t", " ", "i", " ", "0" >>,
       << "!", "l", "a", "b", "e", "l", " ", "L" >>,
       << "i", "n", "c", " ", "i" >>,
       lastline >>

\* A program text as one string: its lines, each followed by a newline.
RECURSIVE Unlines(_)
Unlines(lines) ==
    IF lines = << >> THEN << >>
    ELSE Head(lines) \o << "\n" >> \o Unlines(Tail(lines))

\* The index of the first newline of s, 0 when there is none.
RECURSIVE NewlineAt(_, _)
NewlineAt(s, i) ==
    IF i > Len(s) THEN 0 ELSE IF s[i] = "\n" THEN i ELSE NewlineAt(s, i + 1)

\* The lines of a program text, the Vec<String> given to VM::compile.
RECURSIVE Lines(_)
LinesAt(s, k) ==
    IF k = 0 THEN << >>
    ELSE << SubSeq(s, 1, k - 1) >> \o Lines(SubSeq(s, k + 1, Len(s)))

Lines(s) == LinesAt(s, NewlineAt(s, 1))

\* Lines about one label: a comment, a blank line, the directive, an
\* instruction that is no branch, and the three ways of going to the label.
LabelLines ==
    { << "#", " ", "c" >>,
      << >>,
      << "!", "l", "a", "b", "e", "l", " ", "L" >>,
      << "n", "o", "p" >>,
      << "j", "u", "m", "p", " ", "L" >>,
      << "g", "o", "t", "o", " ", "L" >>,
      << "i", "f", "l", "t", ".", "i", " ", "0", " ", "1", " ", "g", "o", "t", "o",
         " ", "L" >> }

LabelTexts == {Unlines(p) : p \in [1..TextLen -> LabelLines]}

\* VM::predefined_prg: the lines it hands to VM::compile; ioargs is the text
\* of the options, each "key=value ".
PredefinedText(fcname, loopcnt, ioaddr, ioargs) ==
    << << "l", "e", "t", "i", "n", "t", " ", "l", "o", "o", "p", "c", "n", "t", " ",
       "$", "0" >>,
       << "!", "l", "a", "b", "e", "l", " ", "f", "r", "e", "s", "h", "s", "t", "a",
       "r", "t" >>,
       << "i", "o", "b", "n", "e", "w", " ", "s", "r", "v", "X", " " >> \o ioaddr \o << " " >> \o ioargs,
       << "f", "c", "g", "e", "t", " " >> \o fcname \o << " ", "f", "u", "z", "z", "g", "o", "t" >>,
       << "i", "o", "b", "w", "r", "i", "t", "e", " ", "s", "r", "v", "X", " ", "f",
       "u", "z", "z", "g", "o", "t" >>,
       << "i", "o", "b", "f", "l", "u", "s", "h", " ", "s", "r", "v", "X" >>,
       << "i", "n", "c", " ", "l", "o", "o", "p", "c", "n", "t" >>,
       << "i", "f", "l", "t", ".", "i", " ", "l", "o", "o", "p", "c", "n", "t", " ",
       "$" >> \o to_string(loopcnt)
       \o << " ", "g", "o", "t", "o", " ", "f", "r", "e", "s", "h", "s", "t", "a",
          "r", "t" >> >>

\* The options predefined_prg is given: none, or append=true.
PredefinedArgs == {<< >>, << "a", "p", "p", "e", "n", "d", "=", "t", "r", "u", "e", " " >>}

\* The operands of the bufmerged lines: the variable s, a quoted space.
MergedOperands ==
    [var |-> << "s" >>, space |-> << "\"", " ", "\"" >>]

\* The bufmerged lines compiled: each mnemonic with up to MaxSrcs operands.
BufMergedCases ==
    {[sop |-> sop, srcs |-> srcs] :
        sop \in {<< "b", "u", "f", "m", "e", "r", "g", "e", "d" >>,
                 << "b", "u", "f", "m", "e", "r", "g", "e", "d", ".", "b" >>,
                 << "b", "u", "f", "m", "e", "r", "g", "e", "d", ".", "s" >>},
        srcs \in UNION {[1..n -> DOMAIN MergedOperands] : n \in 1..MaxSrcs}}

\* The operands of a case, a space before each.
RECURSIVE SrcsText(_)
SrcsText(srcs) ==
    IF srcs = << >> THEN << >>
    ELSE << " " >> \o MergedOperands[Head(srcs)] \o SrcsText(Tail(srcs))

\* The line of a case: its mnemonic, dst, its operands.
BufMergedLine(c) == c.sop \o << " ", "d", "s", "t" >> \o SrcsText(c.srcs)

\* The text of a bufmerged call: the line, after s is set to hello or alone.
BufMergedText(sets, line) ==
    IF sets = 1
    THEN << << "l", "e", "t", "s", "t", "r", " ", "s", " ", "\"", "h", "e", "l", "l", "o", "\"" >>,
            line >>
    ELSE << line >>

\* The loop counts whose run fits in MaxSteps instructions.
LoopCounts == 1..((MaxSteps - 1) \div 2)

\* ------------------------------------------------------------------------
\* sigpro: crosscorr_weighted_f_of_xf.  An f32 is kept as the exact quotient
\* num / den of integers; indices are those of the code, from 0.
\* ------------------------------------------------------------------------

\* An entry (M, f32) of the data, with the value v.
CcEntry(m, v) == [m |-> m, num |-> v, den |-> 1]

\* vdata[di].1 * vweights[wi], summed for j from the given one up to ifwh; a
\* panic when wi or di is no index.  (i + j) as usize of a negative sum is
\* beyond every length.
RECURSIVE CcSum(_, _, _, _, _)
CcTerm(vdata, vweights, i, ifwh, j, rest) ==
    IF ~rest.ok THEN Panic
    ELSE Ok((vdata[i + j + 1].num * vweights[j + ifwh + 1]) + rest.v)

CcSum(vdata, vweights, i, ifwh, j) ==
    IF j > ifwh THEN Ok(0)
    ELSE IF j + ifwh >= Len(vweights) \/ i + j < 0 \/ i + j >= Len(vdata) THEN Panic
    ELSE CcTerm(vdata, vweights, i, ifwh, j, CcSum(vdata, vweights, i, ifwh, j + 1))

\* vnew.push((vdata[i].0, d/fw as f32)) after the loop over j.
CcPush(vnew, vdata, i, fw, d) ==
    IF ~d.ok THEN Panic
    ELSE Ok(Append(vnew, [m |-> vdata[i + 1].m, num |-> d.v, den |-> fw]))

\* for i in fwh..(vdata.len()-fwh), from the given i on.
RECURSIVE CcMiddle(_, _, _, _, _)
CcMiddleNext(pushed, vdata, vweights, fwh, i) ==
    IF ~pushed.ok THEN Panic ELSE CcMiddle(pushed.v, vdata, vweights, fwh, i + 1)

CcMiddle(vnew, vdata, vweights, fwh, i) ==
    IF i >= Len(vdata) - fwh THEN Ok(vnew)
    ELSE CcMiddleNext(CcPush(vnew, vdata, i, Len(vweights),
                             CcSum(vdata, vweights, i, fwh, 0 - fwh)),
                      vdata, vweights, fwh, i)

\* for i in 0..fwh { vnew[i] = vnew[fwh] }
CcExtendBegin(vnew, fwh) ==
    IF ~vnew.ok THEN Panic
    ELSE IF fwh = 0 THEN vnew
    ELSE IF fwh >= Len(vnew.v) THEN Panic
    ELSE Ok([k \in 1..Len(vnew.v) |-> IF k <= fwh THEN vnew.v[fwh + 1] ELSE vnew.v[k]])

\* for _i in (1..=fwh).rev() { vnew.push(vnew[vdata.len() - fwh - 1]) }
CcExtendEnd(vnew, datalen, fwh) ==
    IF ~vnew.ok THEN Panic
    ELSE IF fwh = 0 THEN vnew
    ELSE IF datalen - fwh - 1 < 0 \/ datalen - fwh - 1 >= Len(vnew.v) THEN Panic
    ELSE Ok(vnew.v \o [k \in 1..fwh |-> vnew.v[datalen - fwh]])

\* crosscorr_weighted_f_of_xf, fwh being vweights.len()/2: the placeholders
\* vdata[0..fwh], the middle, and the two extensions.
CrossCorr(vdata, vweights, fwh) ==
    IF fwh > Len(vdata) THEN Panic
    ELSE CcExtendEnd(CcExtendBegin(CcMiddle(SubSeq(vdata, 1, fwh), vdata, vweights,
                                            fwh, fwh),
                                   fwh),
                     Len(vdata), fwh)

crosscorr_weighted_f_of_xf(vdata, vweights) ==
    CrossCorr(vdata, vweights, Len(vweights) \div 2)

\* The data of n entries: entry i tagged i, with the value i * i.
CcData(n) == [i \in 1..n |-> CcEntry(i, i * i)]

\* The weights given with data of n entries: not empty, no longer than it.
CcWeights(n) == UNION {[1..fw -> {1, 2}] : fw \in 1..n}

\* ------------------------------------------------------------------------
\* Library calls: the functions beside the machine, one call per behaviour
\* ------------------------------------------------------------------------

\* Integers within IntSpan of zero, of the minimum and of the maximum.
FnInts ==
    ((0 - IntSpan)..IntSpan) \cup (MinInt..(MinInt + IntSpan))
    \cup ((MaxInt - IntSpan)..MaxInt)

\* Whitespace, the double quote, the backslash and an ordinary character.
FnChars == {" ", "\t", "\"", "\\", "x"}

FnStrings == UNION {[1..n -> FnChars] : n \in 0..MaxStrLen}

\* Bytes with nibbles on both sides of ten.
FnByteSamples == {0, 9, 10, 154, 255}

\* Every vector of one byte, and the vectors of samples up to MaxBufLen.
FnByteVecs ==
    {<< b >> : b \in Byte} \cup UNION {[1..n -> FnByteSamples] : n \in 0..MaxBufLen}

\* Hex digits of both cases, a sign and a letter that is no hex digit.
HexChars == {"0", "a", "F", "+", "g"}

HexStrings == UNION {[1..n -> HexChars] : n \in 0..MaxStrLen}

\* Texts of integers: the space, digits on both sides of 255, the x of the
\* prefix and a hex digit, and the short texts with a sign.
IntChars == {" ", "0", "2", "9", "x", "f"}

IntTexts ==
    UNION {[1..n -> IntChars] : n \in 0..MaxStrLen}
    \cup {<< sign >> \o t : sign \in {"-", "+"},
                             t \in UNION {[1..n -> {"0", "2", "9"}] : n \in 0..2}}

\* The calls made on the byte vector held in bufs[v].
BufCalls == {"BufString", "HexRoundTrip"}

FnInputs ==
    {FnIn("IntStringInt", i, << >>) : i \in FnInts}
    \cup {FnIn("IntBytesInt", i, << >>) : i \in FnInts}
    \cup {FnIn("remove_extra_whitespaces", 0, s) : s \in FnStrings}
    \cup {FnIn("compile", n, IfLine(n)) : n \in LoopCounts}
    \cup {FnIn("compile", 0, << >>)}
    \cup {FnIn("labels", 0, text) : text \in LabelTexts}
    \cup {FnIn("RandomBytesInt", n, << >>) : n \in 0..(WordBytes + 1)}
    \cup {FnIn(f, 0, << >>) : f \in BufCalls}
    \cup {FnIn("predefined_prg", n, ioargs) : n \in LoopCounts, ioargs \in PredefinedArgs}
    \cup {FnIn("DataM_compile", 0, s) : s \in FnStrings}
    \cup {FnIn("TimeStampBytes", 0, << >>)}
    \cup {FnIn("U8X_from", i, << >>) : i \in FnInts}
    \cup {FnIn("integer_intvalue", 0, t) : t \in IntTexts}
    \cup {FnIn("crosscorr", n, << >>) : n \in 1..MaxData}
    \cup {FnIn("vu8_from_hex", 0, s) : s \in HexStrings}
    \cup {FnIn("bufmerged", sets, BufMergedLine(c)) : sets \in {0, 1}, c \in BufMergedCases}

\* The calls that compile a program text and run it.
CompileCalls == {"compile", "labels", "predefined_prg", "bufmerged"}

\* The lines VM::compile is given by a call: the counting loop whose last line
\* is in.s, the driver predefined_prg builds for the chain fc1, in.i rounds
\* and the console with the options in.s, or the lines of the text in.s.
TextOf(in) ==
    IF in.f = "compile" THEN LoopText(in.s)
    ELSE IF in.f = "predefined_prg"
    THEN PredefinedText(<< "f", "c", "1" >>, in.i,
                        << "c", "o", "n", "s", "o", "l", "e" >>, in.s)
    ELSE IF in.f = "bufmerged" THEN BufMergedText(in.i, in.s)
    ELSE Lines(in.s)

\* letbuf b i / letint j b as compiled, run beside the call on the integer i:
\* letbuf takes its operand as "any", letint as "isize".
FnProgram(in) ==
    IF in.f = "IntBytesInt"
    THEN << LetBuf("b", IntLiteral(in.i)), LetInt("j", IntVar("b")) >>
    ELSE IF in.f = "TimeStampBytes"
    THEN << LetBuf("b", XTimeStamp), LetInt("i", IntVar("b")) >>
    ELSE << >>

InitFn ==
    /\ fin \in FnInputs
    /\ fout = NoOut
    /\ fstage = "in"
    /\ ops = FnProgram(fin)
    /\ lbls = EmptyMap
    /\ funcs = EmptyMap
    /\ big_endian \in (IF fin.f \in {"IntBytesInt", "RandomBytesInt", "TimeStampBytes"}
                       THEN BOOLEAN ELSE {FALSE})
    /\ strs = EmptyMap
    /\ ints = EmptyMap
    /\ bufs \in (IF fin.f \in BufCalls THEN {[v |-> b] : b \in FnByteVecs}
                 ELSE IF fin.f = "crosscorr" THEN {[w |-> b] : b \in CcWeights(fin.i)}
                 ELSE {EmptyMap})
    /\ iobs = EmptyMap
    /\ stepu = 0
    /\ iptr = 0
    /\ iptr_commonupdate = TRUE
    /\ callstack = << >>
    /\ locals = << >>
    /\ status = IF fin.f \in CompileCalls THEN "load"
                ELSE IF ops = << >> THEN "halt" ELSE "run"
    /\ nsteps = 0
    /\ last = [at |-> 0 - 1, opdo |-> FALSE, label |-> ""]
    /\ fcsteps = << >>
    /\ iolog = << >>
    /\ NoChains

machine ==
    << ops, lbls, funcs, big_endian, strs, ints, bufs, iobs, stepu, iptr,
       iptr_commonupdate, callstack, locals, status, nsteps, last, fcsteps, iolog >>

\* The call of f is to be made.
Calling(f) == fstage = "in" /\ fin.f = f

\* The call returned out.
Returned(out) ==
    /\ fout' = out
    /\ fstage' = "out"
    /\ UNCHANGED << fin, machine, chains >>

\* The string view of IntValue(i), and the integer view of that string.
IntStringInt ==
    /\ Calling("IntStringInt")
    /\ \E sv \in Variant_get_string(IntValue(fin.i)) :
          \E r \in Variant_get_isize(StrValue(sv.v)) :
             Returned(FnOut(r.ok, r.v, sv.v, << >>))

\* The byte view of IntValue(i), and the integer view of those bytes.
IntBytesInt ==
    /\ Calling("IntBytesInt")
    /\ \E bv \in Variant_get_bufvu8(IntValue(fin.i)) :
          \E r \in Variant_get_isize(BufValue(bv.v)) :
             Returned(FnOut(r.ok, r.v, << >>, bv.v))

\* The integer view of RandomBytes(n), as a Variant and as an operand.
RandomBytesInt ==
    /\ Calling("RandomBytesInt")
    /\ \E r \in Variant_get_isize(VXRandomBytes(fin.i)) \cup get_isize(XRandomBytes(fin.i)) :
          Returned(FnOut(r.ok, r.v, << >>, << >>))

\* The string view of the byte vector bufs[v], as a Variant and as an operand.
BufString ==
    /\ Calling("BufString")
    /\ \E r \in Variant_get_string(BufValue(bufs["v"])) \cup get_string(BufData(bufs["v"]))
                \cup get_string(AnyVar("v")) :
          Returned(FnOut(r.ok, 0, r.v, << >>))

\* hex::vu8_from_hex(hex::hex_from_vu8(bufs[v])); a panic returns nothing.
HexRoundTrip ==
    /\ Calling("HexRoundTrip")
    /\ Returned(FnOut(hex_vu8_from_hex(hex_hex_from_vu8(bufs["v"])).ok = "Ok", 0,
                      hex_hex_from_vu8(bufs["v"]),
                      hex_vu8_from_hex(hex_hex_from_vu8(bufs["v"])).v))

\* remove_extra_whitespaces(ins), and the same on what it returned.
RemoveExtraWhitespaces ==
    /\ Calling("remove_extra_whitespaces")
    /\ Returned(FnOut(TRUE, 0, remove_extra_whitespaces(fin.s),
                      remove_extra_whitespaces(remove_extra_whitespaces(fin.s))))

\* The byte view of the Timestamp special, of Variant and of DataM, and the
\* integer view of a buffer holding those bytes.
TimeStampBytes ==
    /\ Calling("TimeStampBytes")
    /\ \E bv \in Variant_get_bufvu8(VXTimeStamp) \cup get_bufvu8(XTimeStamp) :
          \E r \in Variant_get_isize(BufValue(bv.v)) :
             Returned(FnOut(r.ok, r.v, << >>, bv.v))

\* hex::vu8_from_hex(fin.s): how it ended and the bytes it gave.
Vu8FromHex ==
    /\ Calling("vu8_from_hex")
    /\ Returned(FnOut(hex_vu8_from_hex(fin.s).ok = "Ok", 0,
                      << hex_vu8_from_hex(fin.s).ok >>, hex_vu8_from_hex(fin.s).v))

\* U8X::from(fin.i); a panic returns nothing.
U8XFrom ==
    /\ Calling("U8X_from")
    /\ Returned(FnOut(U8X_from(fin.i).ok, U8X_from(fin.i).v, << >>, << >>))

\* integer::intvalue::<U8X>(fin.s): how it ended and the byte it gave.
IntegerIntvalue ==
    /\ Calling("integer_intvalue")
    /\ Returned(FnOut(integer_intvalue(fin.s).ok = "Ok", integer_intvalue(fin.s).v,
                      << integer_intvalue(fin.s).ok >>, << >>))

\* What crosscorr_weighted_f_of_xf returned; a panic returns nothing.
CcOut(r) == IF r.ok THEN FnOut(TRUE, 0, << >>, r.v) ELSE FnOut(FALSE, 0, << >>, << >>)

\* crosscorr_weighted_f_of_xf on the data of fin.i entries and the weights
\* held in bufs[w].
CrossCorrCall ==
    /\ Calling("crosscorr")
    /\ Returned(CcOut(crosscorr_weighted_f_of_xf(CcData(fin.i), bufs["w"])))

\* What DataM::compile made of a token: the operand's kind and text.
DataMOut(r) ==
    IF r.ok THEN FnOut(TRUE, 0, r.v.s, << r.v.k >>) ELSE FnOut(FALSE, 0, << >>, << >>)

\* DataM::compile(fin.s, "any", _); a panic returns nothing.
DataMCompile ==
    /\ Calling("DataM_compile")
    /\ Returned(DataMOut(DataM_compile(fin.s, "any")))

\* The machine takes what VM::compile built.
Loaded(built) ==
    /\ ops' = built.ops
    /\ lbls' = built.lbls
    /\ funcs' = built.funcs
    /\ status' = IF built.ok THEN "run" ELSE "panic"
    /\ fout' = FnOut(built.ok, Len(built.ops), << >>, << >>)

\* VM::compile on the text of the call; the machine runs what was compiled,
\* and is gone when a line panicked.
Compile ==
    /\ fstage = "in"
    /\ fin.f \in CompileCalls
    /\ Loaded(VM_compile(TextOf(fin)))
    /\ fstage' = "out"
    /\ UNCHANGED << fin, big_endian, strs, ints, bufs, iobs, stepu, iptr,
                    iptr_commonupdate, callstack, locals, nsteps, last, fcsteps,
                    iolog, chains >>

NextFn ==
    \/ U8XFrom
    \/ IntegerIntvalue
    \/ CrossCorrCall
    \/ Vu8FromHex
    \/ TimeStampBytes
    \/ DataMCompile
    \/ IntStringInt
    \/ IntBytesInt
    \/ RemoveExtraWhitespaces
    \/ RandomBytesInt
    \/ BufString
    \/ HexRoundTrip
    \/ Compile
    \/ RunLetBuf
    \/ RunLetInt
    \/ RunInc
    \/ RunNop
    \/ RunJump
    \/ Halt

SpecFn == InitFn /\ [][NextFn]_vars


\* ------------------------------------------------------------------------
\* VM::load_prg, a loop iteration at a time
\* ------------------------------------------------------------------------

\* str::split("\n"): the pieces between the newlines, one more than newlines.
RECURSIVE split_newline(_)
SplitNewlineAt(s, k) ==
    IF k = 0 THEN << s >>
    ELSE << SubSeq(s, 1, k - 1) >> \o split_newline(SubSeq(s, k + 1, Len(s)))

split_newline(s) == SplitNewlineAt(s, NewlineAt(s, 1))

\* The program files read: every text of a word character, the space, the
\* double quote and the newline.
LoadChars == {"x", " ", "\"", "\n"}

LoadTexts == UNION {[1..n -> LoadChars] : n \in 0..MaxStrLen}

\* prgdata, the lines of the file read.
Prgdata == split_newline(fin.s)

\* The file is read and split; fout.i lines are done, fout.t is the local ops
\* and fout.s the local tl.
InitLoad ==
    /\ fin \in {FnIn("load_prg", 0, text) : text \in LoadTexts}
    /\ fout = NoOut
    /\ fstage = "line"
    /\ ops = << >>
    /\ lbls = EmptyMap
    /\ funcs = EmptyMap
    /\ big_endian = FALSE
    /\ strs = EmptyMap
    /\ ints = EmptyMap
    /\ bufs = EmptyMap
    /\ iobs = EmptyMap
    /\ stepu = 0
    /\ iptr = 0
    /\ iptr_commonupdate = TRUE
    /\ callstack = << >>
    /\ locals = << >>
    /\ status = "load"
    /\ nsteps = 0
    /\ last = [at |-> 0 - 1, opdo |-> FALSE, label |-> ""]
    /\ fcsteps = << >>
    /\ iolog = << >>
    /\ NoChains

\* for l in prgdata: nl is l without its extra whitespace, and tl starts as nl.
LoadPrgLine ==
    /\ fstage = "line"
    /\ fout.i < Len(Prgdata)
    /\ fout' = [fout EXCEPT !.s = remove_extra_whitespaces(Prgdata[fout.i + 1])]
    /\ fstage' = "token"
    /\ UNCHANGED << fin, machine, chains >>

\* while tl.len() > 0: let (tok, tlnext) = next_token(&tl).unwrap(); tl = tlnext
LoadPrgToken ==
    /\ fstage = "token"
    /\ Len(fout.s) > 0
    /\ fout' = [fout EXCEPT !.s = next_token(fout.s)[2]]
    /\ UNCHANGED << fin, fstage, machine, chains >>

\* The while loop is left: ops.push(nl), and on to the next line.
LoadPrgPush ==
    /\ fstage = "token"
    /\ Len(fout.s) = 0
    /\ fout' = [fout EXCEPT
                   !.t = Append(@, remove_extra_whitespaces(Prgdata[fout.i + 1])),
                   !.i = @ + 1]
    /\ fstage' = "line"
    /\ UNCHANGED << fin, machine, chains >>

\* The for loop is left: self.compile(ops).
LoadPrgCompile ==
    /\ fstage = "line"
    /\ fout.i = Len(Prgdata)
    /\ Loaded(VM_compile(fout.t))
    /\ fstage' = "out"
    /\ UNCHANGED << fin, big_endian, strs, ints, bufs, iobs, stepu, iptr,
                    iptr_commonupdate, callstack, locals, nsteps, last, fcsteps,
                    iolog, chains >>

NextLoad == LoadPrgLine \/ LoadPrgToken \/ LoadPrgPush \/ LoadPrgCompile

\* load_prg runs on one thread that nothing suspends: a step it can take, it
\* takes.
SpecLoad == InitLoad /\ [][NextLoad]_vars /\ WF_vars(NextLoad)

\* ------------------------------------------------------------------------
\* Fuzz chains on their own: appends and gets in any order
\* ------------------------------------------------------------------------

\* The fuzzers chains are built from: two that go by the step, one that does not.
Fuzzers ==
    { LoopFixedStrings(<< << "A" >>, << "B", "C" >> >>),
      LoopFixedStrings(<< << "x" >>, << "y" >>, << "z" >> >>),
      RandomFixedStrings(<< << "p" >>, << "q" >> >>) }

\* The calls made on the two chains so far.
CallsMade == Len(fc.chain) + Len(fci.chain) + Len(fcgets) + Len(fcigets)

InitChain ==
    /\ ops = << >>
    /\ lbls = EmptyMap
    /\ funcs = EmptyMap
    /\ big_endian = FALSE
    /\ strs = EmptyMap
    /\ ints = EmptyMap
    /\ bufs = EmptyMap
    /\ iobs = EmptyMap
    /\ stepu = 0
    /\ iptr = 0
    /\ iptr_commonupdate = TRUE
    /\ callstack = << >>
    /\ locals = << >>
    /\ status = "halt"
    /\ nsteps = 0
    /\ last = [at |-> 0 - 1, opdo |-> FALSE, label |-> ""]
    /\ fcsteps = << >>
    /\ iolog = << >>
    /\ fin = NoIn
    /\ fout = NoOut
    /\ fstage = "off"
    /\ NoChains

\* FuzzChain::append
FuzzChainAppend ==
    /\ CallsMade < MaxCalls
    /\ \E fuzzer \in Fuzzers : fc' = [fc EXCEPT !.chain = Append(@, fuzzer)]
    /\ UNCHANGED << machine, fin, fout, fstage, fci, fcgets, fcigets >>

\* FuzzChain::get: every fuzzer is handed self.step, then the step advances.
FuzzChainGet ==
    /\ CallsMade < MaxCalls
    /\ \E buf \in FuzzChain_get(fc) :
          fcgets' = Append(fcgets, [chain |-> fc.chain,
                                    passed |-> [i \in 1..Len(fc.chain) |-> fc.step],
                                    buf |-> buf])
    /\ fc' = [fc EXCEPT !.step = FuzzChainStep(fc)]
    /\ UNCHANGED << machine, fin, fout, fstage, fci, fcigets >>

\* FuzzChainImmuts::append
FuzzChainImmutsAppend ==
    /\ CallsMade < MaxCalls
    /\ \E fuzzer \in Fuzzers : fci' = [fci EXCEPT !.chain = Append(@, fuzzer)]
    /\ UNCHANGED << machine, fin, fout, fstage, fc, fcgets, fcigets >>

\* FuzzChainImmuts::get(step), through &self
FuzzChainImmutsGet ==
    /\ CallsMade < MaxCalls
    /\ \E step \in 0..MaxCalls :
          \E buf \in FuzzChainImmuts_get(fci.chain, step) :
             fcigets' = Append(fcigets, [chain |-> fci.chain, step |-> step, buf |-> buf])
    /\ UNCHANGED << machine, fin, fout, fstage, fc, fci, fcgets >>

NextChain ==
    \/ FuzzChainAppend
    \/ FuzzChainGet
    \/ FuzzChainImmutsAppend
    \/ FuzzChainImmutsGet

SpecChain == InitChain /\ [][NextChain]_vars


\* ------------------------------------------------------------------------
\* Properties
\* ------------------------------------------------------------------------

\* The instruction executed last (defined once one has been executed).
LastOp == ops[last.at + 1]

Executed == last.at >= 0

Alive == status \in {"run", "halt"}

\* The namespace an assigning instruction puts its target in, and the target.
IntKinds == {"LetInt", "Inc", "Dec", "Alu"}

BufKinds ==
    {"BufNew", "LetBuf", "LetBufStr", "Buf8Randomize", "BufsMerge", "BufMerged"}

TargetOf(o) == IF o.op \in {"FcGet", "IobRead"} THEN o.a[2] ELSE o.a[1]

\* C1: every variable name is in at most one of ints, strs and bufs, and the
\* target of the assigning instruction executed last is in the namespace of
\* that instruction's kind.
C1_OneNamespacePerName ==
    /\ (DOMAIN ints) \cap (DOMAIN strs) = {}
    /\ (DOMAIN ints) \cap (DOMAIN bufs) = {}
    /\ (DOMAIN strs) \cap (DOMAIN bufs) = {}
    /\ (Executed /\ status = "run") =>
          /\ LastOp.op \in IntKinds => TargetOf(LastOp) \in DOMAIN ints
          /\ LastOp.op = "LetStr" => TargetOf(LastOp) \in DOMAIN strs
          /\ LastOp.op \in BufKinds \cup {"FcGet", "IobRead"} =>
                TargetOf(LastOp) \in DOMAIN bufs

\* The names a and c, first an int and a buffer, have changed namespace.
C1_Witness ==
    /\ status = "run"
    /\ ops[1] = LetInt("a", IntLiteral(1))
    /\ ops[3].op = "BufNew"
    /\ "a" \in DOMAIN bufs
    /\ "c" \in DOMAIN strs

NoBranchKinds ==
    {"Nop", "LetStr", "LetInt", "Inc", "Dec", "Alu", "IobNew", "IobWrite",
     "IobFlush", "IobRead", "IobClose", "SleepMSec", "FcGet", "BufNew",
     "LetBuf", "LetBufStr", "Buf8Randomize", "BufsMerge", "BufMerged"}

\* The instruction executed last took no branch.
FellThrough ==
    \/ LastOp.op \in NoBranchKinds
    \/ LastOp.op = "If" /\ ~last.opdo
    \/ LastOp.op \in {"Jump", "CheckJump"} /\ last.label = "__NEXT__"

\* C2: an instruction that takes no branch, executed at index i, leaves
\* iptr = i + 1; the run returns exactly when iptr is at or beyond the number of
\* instructions, and no instruction is executed at an index outside the
\* program.
C2_FallThroughAndHalt ==
    /\ (Executed /\ Alive /\ FellThrough) => iptr = last.at + 1
    /\ Executed => last.at < Len(ops)
    /\ status = "halt" => iptr >= Len(ops)
    /\ status = "run" => ((ENABLED Halt) <=> iptr >= Len(ops))

\* A taken jump was followed by an if whose predicate was false, which fell
\* through to the end of the program, and the run returned.
C2_Witness ==
    /\ status = "halt"
    /\ Executed
    /\ LastOp.op = "If"
    /\ ~last.opdo
    /\ nsteps > Len(ops)

\* The last instruction was a call that did not panic.
CallDone ==
    /\ Executed
    /\ status = "run"
    /\ \/ LastOp.op = "Call"
       \/ LastOp.op = "If" /\ LastOp.a[1] = "call" /\ last.opdo

\* The step that executes a call, plain or under a true if.
CallStep ==
    /\ status = "run"
    /\ nsteps' = nsteps + 1
    /\ status' = "run"
    /\ \/ CurOp.op = "Call"
       \/ CurOp.op = "If" /\ CurOp.a[1] = "call" /\ last'.opdo

\* C3: a successful call, plain or from a taken if, pushes exactly the index
\* of the calling instruction on callstack and exactly one frame on locals,
\* and sets iptr to the index bound to the function.
C3_CallPushesOne ==
    [][CallStep =>
          /\ callstack' = Append(callstack, iptr)
          /\ Len(locals') = Len(locals) + 1
          /\ SubSeq(locals', 1, Len(locals)) = locals
          /\ iptr' = funcs[last'.label].idx]_vars

\* A taken if made a call from inside a called function.
C3_Witness ==
    /\ CallDone
    /\ LastOp.op = "If"
    /\ Len(callstack) = 2
    /\ Len(locals) = 2

\* The step that executes a ret without panicking.
RetStep ==
    /\ status = "run"
    /\ nsteps' = nsteps + 1
    /\ status' = "run"
    /\ CurOp.op = "Ret"

\* C4: ret removes exactly one entry from callstack and exactly one frame
\* from locals, which leaves the two depths equal.
C4_RetPopsBoth ==
    [][RetStep =>
          /\ Len(callstack') = Len(callstack) - 1
          /\ Len(locals') = Len(locals) - 1
          /\ Len(callstack') = Len(locals')]_vars

Names == (DOMAIN ints) \cup (DOMAIN strs) \cup (DOMAIN bufs)

\* C5: the program letint n 1 / call f n, with f of formal x doing inc x and
\* ret, runs to its end with ints[n] = 2 and no variable named x.
C5_CallAliasesActual ==
    ops = AliasProgram.ops =>
       /\ status # "panic"
       /\ status = "halt" => (ints["n"] = 2 /\ "x" \notin Names)

\* C6: every fcget hands the chain the value stepu had before the
\* instruction, so the k-th fcget of a run uses step k - 1; it stores the
\* bytes the chain gives for that step as the buffer it names, and stepu ends
\* one higher.
C6_FcGetUsesStepBefore ==
    /\ Len(fcsteps) = stepu
    /\ \A k \in 1..Len(fcsteps) : fcsteps[k] = k - 1
    /\ (Executed /\ status = "run" /\ LastOp.op = "FcGet") =>
          /\ stepu >= 1
          /\ LastOp.a[2] \in DOMAIN bufs
          /\ bufs[LastOp.a[2]] \in FuzzChainImmuts_get(FcRtm[LastOp.a[1]], stepu - 1)

\* The second fcget of a run took the second string of each looping fuzzer.
C6_Witness ==
    /\ Executed
    /\ status = "run"
    /\ LastOp = FcGet("fc1", "x")
    /\ stepu = 2
    /\ bufs["x"] = StrBytes(<< "B", "C", "y" >>)

\* C7: no instruction other than fcget changes stepu, and stepu never
\* decreases.
C7_OnlyFcGetSteps ==
    [][/\ stepu' >= stepu
       /\ stepu' # stepu => (status = "run" /\ ~RunOver(iptr) /\ CurOp.op = "FcGet")]_vars

\* A ret has run after the first fcget of the run and stepu is still 1.
C7_Witness ==
    /\ Executed
    /\ status = "run"
    /\ stepu = 1
    /\ LastOp.op = "Ret"

\* The integer an ALU instruction is said to produce.
AluExact(aluop, a, b) ==
    CASE aluop = "Add" -> a + b
      [] aluop = "Sub" -> a - b
      [] aluop = "Mult" -> a * b
      [] aluop = "Div" -> TruncDiv(a, b)
      [] aluop = "Mod" -> TruncRem(a, b)

\* The last instruction is an ALU instruction on two literals, the second not
\* zero for div and mod.
AluOnLiterals ==
    /\ Executed
    /\ LastOp.op = "Alu"
    /\ LastOp.d[1].k = "IntLiteral"
    /\ LastOp.d[2].k = "IntLiteral"
    /\ LastOp.x \in {"Div", "Mod"} => LastOp.d[2].i # 0

\* C8: add, sub, mult, div and mod on operands A and B, B not zero for div
\* and mod, store the exact result wrapped to the machine word and do not
\* fail, overflow and the minimum integer divided by -1 included.
C8_AluWraps ==
    AluOnLiterals =>
       /\ status # "panic"
       /\ ints[LastOp.a[1]] = Wrap(AluExact(LastOp.x, LastOp.d[1].i, LastOp.d[2].i))

\* The comparison an if instruction is said to make.
CondExact(cop, a, b) ==
    CASE cop = "IfLtInt" -> a < b
      [] cop = "IfGtInt" -> a > b
      [] cop = "IfLeInt" -> a <= b
      [] cop = "IfGeInt" -> a >= b

\* C9: ifle, ifge and ifgt on integers a and b take their target exactly when
\* a <= b, a >= b and a > b, for every pair of machine integers, the maximum
\* included.
C9_IfCompares ==
    (/\ Executed
     /\ LastOp.op = "If"
     /\ LastOp.x \in {"IfLeInt", "IfGeInt", "IfGtInt"}
     /\ LastOp.d[1].k = "IntLiteral"
     /\ LastOp.d[2].k = "IntLiteral") =>
       /\ status # "panic"
       /\ last.opdo = CondExact(LastOp.x, LastOp.d[1].i, LastOp.d[2].i)
       /\ iptr = IF CondExact(LastOp.x, LastOp.d[1].i, LastOp.d[2].i)
                 THEN lbls[LastOp.a[2]] ELSE last.at + 1

\* The value of a literal or integer-variable operand, for instructions that
\* leave the integers alone.
OperandVal(dm) == IF dm.k = "IntLiteral" THEN dm.i ELSE ints[dm.n]

\* The label checkjump is said to select.
Selected ==
    IF OperandVal(LastOp.d[1]) < OperandVal(LastOp.d[2]) THEN LastOp.a[1]
    ELSE IF OperandVal(LastOp.d[1]) = OperandVal(LastOp.d[2]) THEN LastOp.a[2]
    ELSE LastOp.a[3]

\* C10: checkjump a b Llt Leq Lgt sets iptr to the index of Llt when a < b,
\* of Leq when a = b and of Lgt when a > b; a selected __NEXT__ falls through
\* to the next instruction; only the selected label has to be bound.
C10_CheckJumpSelects ==
    (/\ Executed
     /\ LastOp.op = "CheckJump"
     /\ LastOp.d[1].k \in {"IntLiteral", "IntVar"}
     /\ LastOp.d[2].k \in {"IntLiteral", "IntVar"}
     /\ LastOp.d[1].k = "IntVar" => LastOp.d[1].n \in DOMAIN ints
     /\ LastOp.d[2].k = "IntVar" => LastOp.d[2].n \in DOMAIN ints
     /\ Selected \in (DOMAIN lbls) \cup {"__NEXT__"}) =>
       /\ status # "panic"
       /\ last.label = Selected
       /\ iptr = IF Selected = "__NEXT__" THEN last.at + 1 ELSE lbls[Selected]

\* Equal operands took the jump to the equal label although the other two
\* labels are not bound.
C10_Witness ==
    /\ Executed
    /\ status = "run"
    /\ LastOp = CheckJump(IntLiteral(MaxInt), IntLiteral(MaxInt), "nolabel", "L2", "nolabel")
    /\ iptr = 2

\* C11: a name assigned with letint and later with letstr is no longer in
\* ints, and resolving it as an Any-variable yields the string; likewise a
\* later letint or buffer assignment makes the Any-resolution yield the value
\* of the newest kind.
C11_AnyResolvesNewest ==
    (Executed /\ status = "run") =>
       /\ LastOp.op = "LetStr" =>
             /\ TargetOf(LastOp) \notin DOMAIN ints
             /\ get_string(AnyVar(TargetOf(LastOp))) = {Ok(strs[TargetOf(LastOp)])}
             /\ LastOp.d[1].k = "StringLiteral" =>
                   get_string(AnyVar(TargetOf(LastOp))) = {Ok(LastOp.d[1].s)}
       /\ LastOp.op = "LetInt" =>
             /\ get_isize(AnyVar(TargetOf(LastOp))) = {Ok(ints[TargetOf(LastOp)])}
             /\ LastOp.d[1].k = "IntLiteral" =>
                   get_isize(AnyVar(TargetOf(LastOp))) = {Ok(LastOp.d[1].i)}
       /\ LastOp.op \in BufKinds =>
             /\ get_bufvu8(AnyVar(TargetOf(LastOp))) = {Ok(bufs[TargetOf(LastOp)])}
             /\ (LastOp.op = "LetBuf" /\ LastOp.d[1].k = "BufData") =>
                   get_bufvu8(AnyVar(TargetOf(LastOp))) = {Ok(LastOp.d[1].b)}

\* The name a, an int since the first instruction, has just been assigned
\* the string hi and resolves to it.
C11_Witness ==
    /\ Executed
    /\ status = "run"
    /\ ops[1] = LetInt("a", IntLiteral(1))
    /\ LastOp = LetStr("a", StringLiteral(<< "h", "i" >>))
    /\ get_string(AnyVar("a")) = {Ok(<< "h", "i" >>)}

\* C12: when iobnew runs on an ID that already holds an opened bridge, that
\* bridge's close is called before the new bridge is installed: between two
\* installs under one ID, the first of an opened bridge, there is a close of
\* that ID; and the table holds, under each ID, the bridge installed last.
C12_IobNewClosesFirst ==
    /\ \A p \in 1..Len(iolog), q \in 1..Len(iolog) :
          (/\ p < q
           /\ iolog[p].ev = "new"
           /\ iolog[p].r # "None"
           /\ iolog[q].ev = "new"
           /\ iolog[q].id = iolog[p].id) =>
             \E c \in (p + 1)..(q - 1) :
                iolog[c].ev = "close" /\ iolog[c].id = iolog[p].id
    /\ \A ioid \in DOMAIN iobs :
          \E p \in 1..Len(iolog) :
             /\ iolog[p] = IoEvent("new", ioid, iobs[ioid])
             /\ \A q \in (p + 1)..Len(iolog) :
                   iolog[q].id = ioid => iolog[q].ev \notin {"new", "close"}

\* The console bridge under io was closed, its close failing, and a TCP
\* bridge took its place.
C12_Witness ==
    /\ status = "run"
    /\ Len(iolog) = 3
    /\ iolog[1] = IoEvent("new", "io", "Console")
    /\ iolog[2] = IoEvent("close", "io", "Err")
    /\ iolog[3] = IoEvent("new", "io", "TcpClient")
    /\ iobs["io"] = "TcpClient"

\* The calls the step adds to iolog.
NewEvents == SubSeq(iolog', Len(iolog) + 1, Len(iolog'))

\* The step runs an iobwrite, iobflush, iobclose or iobnew during which a
\* write, flush or close on the bridge returned an error.
IoErrStep ==
    /\ status = "run"
    /\ ~RunOver(iptr)
    /\ CurOp.op \in {"IobWrite", "IobFlush", "IobClose", "IobNew"}
    /\ \E k \in 1..Len(NewEvents) :
          NewEvents[k].ev \in {"write", "flush", "close"} /\ NewEvents[k].r = "Err"

\* C13: when the write, flush or close of a bridge returns an error (the
\* close made by iobnew on an existing ID included), the run is not aborted,
\* strs, ints and bufs are unchanged, iptr advances to the next instruction,
\* iobclose still removes the ID and iobnew still installs the new bridge.
C13_IoErrorsDoNotAbort ==
    [][IoErrStep =>
          /\ status' = "run"
          /\ UNCHANGED << strs, ints, bufs >>
          /\ iptr' = iptr + 1
          /\ CurOp.op = "IobClose" => CurOp.a[1] \notin DOMAIN iobs'
          /\ CurOp.op = "IobNew" =>
                /\ CurOp.a[1] \in DOMAIN iobs'
                /\ NewEvents[Len(NewEvents)] = IoEvent("new", CurOp.a[1], iobs'[CurOp.a[1]])
          /\ CurOp.op \in {"IobWrite", "IobFlush"} => iobs' = iobs]_vars

\* A failed flush was followed by an iobclose whose close failed too: the run
\* goes on and io is gone from the table.
C13_Witness ==
    /\ Executed
    /\ status = "run"
    /\ LastOp.op = "IobClose"
    /\ Len(iolog) = 3
    /\ iolog[2] = IoEvent("flush", "io", "Err")
    /\ iolog[3] = IoEvent("close", "io", "Err")
    /\ "io" \notin DOMAIN iobs
    /\ iptr = last.at + 1

\* The step runs an iobread whose read on the bridge returned an error.
ReadErrStep ==
    /\ status = "run"
    /\ ~RunOver(iptr)
    /\ CurOp.op = "IobRead"
    /\ NewEvents = << IoEvent("read", CurOp.a[1], "Err") >>

\* C14: when the read of a bridge returns an error, iobread does not abort
\* the run and leaves the target buffer as it was, and the run goes on at the
\* next instruction.
C14_ReadErrorDoesNotAbort ==
    [][ReadErrStep =>
          /\ status' = "run"
          /\ bufs' = bufs
          /\ iptr' = iptr + 1]_vars

\* The step that runs a buf8randomize on literal operands to its end.
B8rStep ==
    /\ status = "run"
    /\ ~RunOver(iptr)
    /\ CurOp.op = "Buf8Randomize"
    /\ \A k \in 1..3 : CurOp.d[k].k = "IntLiteral"
    /\ status' = "run"

\* The start and end offsets buf8randomize resolves its operands to.
ResolvedStart == IF CurOp.d[2].i < 0 THEN 0 ELSE CurOp.d[2].i

ResolvedEnd ==
    IF CurOp.d[3].i < 0 THEN Len(bufs[CurOp.a[1]]) - 1 ELSE CurOp.d[3].i

\* C15: after buf8randomize on buffer B with resolved start offset s and end
\* offset e, s <= e < len(B), B has the length it had, every byte at an
\* offset outside [s, e] is unchanged, and with a count of 0 the whole buffer
\* is unchanged.
C15_Buf8RandomizeInRange ==
    [][(B8rStep /\ ResolvedStart <= ResolvedEnd
                /\ ResolvedEnd < Len(bufs[CurOp.a[1]])) =>
          /\ Len(bufs'[CurOp.a[1]]) = Len(bufs[CurOp.a[1]])
          /\ \A i \in 1..Len(bufs[CurOp.a[1]]) :
                (i - 1 < ResolvedStart \/ i - 1 > ResolvedEnd) =>
                   bufs'[CurOp.a[1]][i] = bufs[CurOp.a[1]][i]
          /\ CurOp.d[1].i = 0 => bufs'[CurOp.a[1]] = bufs[CurOp.a[1]]]_vars

\* buf8randomize b 2 1 1 65 66 on the bytes 1 2 3 wrote the middle byte only.
C15_Witness ==
    /\ Executed
    /\ status = "run"
    /\ LastOp = Buf8Randomize("b", IntLiteral(2), IntLiteral(1), IntLiteral(1),
                              IntLiteral(65), IntLiteral(66))
    /\ bufs["b"] = << 1, 66, 3 >>

\* C16: for every machine integer i, the minimum, the maximum, zero and
\* negative values included, the string view of IntValue(i) read back as an
\* integer through intvalue is i.
C16_IntStringRoundTrip ==
    (fstage = "out" /\ fin.f = "IntStringInt") =>
       /\ fout.ok
       /\ fout.i = fin.i

\* The minimum integer gave -32768 and that string gave the minimum integer.
C16_Witness ==
    /\ fstage = "out"
    /\ fin = FnIn("IntStringInt", MinInt, << >>)
    /\ fout.s = << "-", "3", "2", "7", "6", "8" >>
    /\ fout.ok
    /\ fout.i = MinInt

\* The k-th byte, counted from the least significant, of the two's
\* complement image of i.
ImageByte(i, k) == (((i + (2 ^ IntBits)) % (2 ^ IntBits)) \div (256 ^ (k - 1))) % 256

\* The byte view of IntValue(i) is one word, the native-endian image of i,
\* and the integer view of a buffer of those bytes is i.
VariantBytesRoundTrip ==
    (fstage = "out" /\ fin.f = "IntBytesInt") =>
       /\ Len(fout.t) = WordBytes
       /\ \A k \in 1..WordBytes :
             fout.t[IF big_endian THEN (WordBytes + 1) - k ELSE k]
                = ImageByte(fin.i, k)
       /\ fout.ok
       /\ fout.i = fin.i

\* C17 as stated: for every machine integer i the byte view of IntValue(i)
\* is one machine word of bytes, the native-endian image of i, and the
\* integer view of a buffer of those bytes is i; in the machine, letbuf b i
\* followed by letint j b leaves ints[j] = i.
C17_LetIntReadsBuffer ==
    fin.f = "IntBytesInt" =>
       /\ VariantBytesRoundTrip
       /\ status # "panic"
       /\ (Executed /\ last.at = 1) => ints = [j \in {"j"} |-> fin.i]

\* C17, amended: the byte view of IntValue(i) is one machine word of bytes,
\* the native-endian image of i, and the integer view of a buffer of those
\* bytes is i; in the machine, letbuf b i leaves that image in bufs[b], which
\* the Any-resolver reads back as i, and a following letint j b, whose
\* operand is compiled as an integer variable, panics and binds no j.
C17_IntBytesRoundTrip ==
    fin.f = "IntBytesInt" =>
       /\ VariantBytesRoundTrip
       /\ (Executed /\ last.at = 0) =>
             /\ status = "run"
             /\ Len(bufs["b"]) = WordBytes
             /\ \A k \in 1..WordBytes :
                   bufs["b"][IF big_endian THEN (WordBytes + 1) - k ELSE k]
                      = ImageByte(fin.i, k)
             /\ get_isize(AnyVar("b")) = {Ok(fin.i)}
       /\ (Executed /\ last.at = 1) =>
             /\ status = "panic"
             /\ "j" \notin DOMAIN ints

\* On a big-endian target -2 gave the bytes 255 254, which gave -2 back; the
\* machine has stored them in b and panicked on letint j b.
C17_Witness ==
    /\ fin = FnIn("IntBytesInt", 0 - 2, << >>)
    /\ big_endian
    /\ fstage = "out"
    /\ fout.t = << 255, 254 >>
    /\ fout.i = 0 - 2
    /\ status = "panic"
    /\ last.at = 1
    /\ bufs["b"] = << 255, 254 >>

\* C18: remove_extra_whitespaces is idempotent on every string, whatever its
\* mix of whitespace, double quotes and backslashes, balanced or not.
C18_RewIdempotent ==
    (fstage = "out" /\ fin.f = "remove_extra_whitespaces") => fout.t = fout.s

\* A string with whitespace runs outside and inside an unclosed quote was
\* shortened, and the second pass left the result as it was.
C18_Witness ==
    /\ fstage = "out"
    /\ fin = FnIn("remove_extra_whitespaces", 0, << " ", "\t", "\"", " ", " " >>)
    /\ fout.s = << " ", "\"", " ", " " >>
    /\ fout.t = fout.s

\* What the text says one character does: inside a quoted region every
\* character is copied, a backslash makes the character after it ordinary and
\* an unescaped double quote ends the region; outside, a run of whitespace
\* becomes one space and a double quote opens a region.
RewSaidStep(st, c) ==
    IF st.binquotes
    THEN LET copied == [st EXCEPT !.outs = Append(@, c)]
         IN IF st.besc THEN [copied EXCEPT !.besc = FALSE]
            ELSE IF c = "\\" THEN [copied EXCEPT !.besc = TRUE]
            ELSE IF c = "\"" THEN [copied EXCEPT !.binquotes = FALSE]
            ELSE copied
    ELSE IF IsWhitespace(c)
         THEN IF st.bwhitespace THEN st
              ELSE [st EXCEPT !.bwhitespace = TRUE, !.outs = Append(@, " ")]
    ELSE [st EXCEPT !.bwhitespace = FALSE, !.outs = Append(@, c),
                    !.binquotes = (c = "\"")]

RECURSIVE RewSaidFrom(_, _, _)
RewSaidFrom(st, ins, i) ==
    IF i > Len(ins) THEN st ELSE RewSaidFrom(RewSaidStep(st, ins[i]), ins, i + 1)

\* C19: remove_extra_whitespaces replaces every maximal run of whitespace
\* outside double-quoted regions by one space and copies every character
\* inside a double-quoted region unchanged, where inside quotes a backslash
\* makes the next character ordinary and outside quotes it means nothing.
C19_RewNormalises ==
    (fstage = "out" /\ fin.f = "remove_extra_whitespaces") =>
       fout.s = RewSaidFrom(RewStart, fin.s, 1).outs

\* C20: the counting loop letint i 0 / !label L / inc i / iflt.i i $N goto L
\* compiles for every N >= 1; once its run is over the machine has halted, not
\* panicked, with ints[i] = N after one letint and N rounds of inc and iflt.i.
C20_CountingLoopCounts ==
    (fin.f = "compile" /\ fin.i >= 1 /\ fstage = "out") =>
        /\ fout.ok
        /\ status # "panic"
        /\ status = "halt" =>
              /\ "i" \in DOMAIN ints
              /\ ints["i"] = fin.i
              /\ nsteps = 1 + 2 * fin.i

\* A line VM::compile turns into an instruction: not blank, no comment, no
\* directive.
IsInstruction(line) == Trim(line) # << >> /\ Head(Trim(line)) \notin {"#", "!"}

\* The lines of the text that declare the label L.
DeclaresL(lines) ==
    {k \in 1..Len(lines) : Trim(lines[k]) = << "!", "l", "a", "b", "e", "l", " ", "L" >>}

\* The number of instructions before the k-th line.
InstructionsBefore(lines, k) ==
    Cardinality({j \in 1..(k - 1) : IsInstruction(lines[j])})

\* The number of instructions before the last declaration of L, and whether
\* an instruction follows it; no declaration gives -1.
LabelIndex(lines, decl) ==
    IF decl = {} THEN 0 - 1
    ELSE InstructionsBefore(lines, CHOOSE k \in decl : \A j \in decl : j <= k)

LabelAtEnd(lines, decl) ==
    /\ decl # {}
    /\ \A j \in 1..Len(lines) : (\A k \in decl : k < j) => ~IsInstruction(lines[j])

\* VM::compile returned from the labels text.
LabelsCompiled == fin.f = "labels" /\ fstage = "in" /\ fstage' = "out"

\* A jump, goto or taken if-goto to L was executed.
WentToL ==
    /\ fin.f = "labels"
    /\ status = "run"
    /\ status' = "run"
    /\ nsteps' = nsteps + 1
    /\ ops[iptr + 1].op \in {"Jump", "If"}

\* C21: !label NAME binds NAME to the number of instructions compiled before it
\* (comments, blank lines and directives take no index); a jump, goto or if-goto
\* to NAME sets iptr to that index wherever the label is declared, and a label
\* declared after the last instruction makes the jump end the run.
C21_LabelsBindAndJump ==
    [][ /\ LabelsCompiled =>
              /\ fout'.ok
              /\ ("L" \in DOMAIN lbls') = (DeclaresL(Lines(fin.s)) # {})
              /\ "L" \in DOMAIN lbls' =>
                    lbls'["L"] = LabelIndex(Lines(fin.s), DeclaresL(Lines(fin.s)))
        /\ WentToL =>
              /\ iptr' = LabelIndex(Lines(fin.s), DeclaresL(Lines(fin.s)))
              /\ iptr_commonupdate' = FALSE
              /\ LabelAtEnd(Lines(fin.s), DeclaresL(Lines(fin.s))) => iptr' >= Len(ops)
      ]_vars

\* C22: the k-th FuzzChain::get hands step k-1 to every fuzzer of the chain, and
\* the chain's step counter has advanced by one for each get made, whatever the
\* number of fuzzers in the chain.
C22_GetPassesItsOrdinal ==
    /\ fc.step = Len(fcgets)
    /\ \A k \in 1..Len(fcgets) :
          /\ Len(fcgets[k].passed) = Len(fcgets[k].chain)
          /\ \A i \in 1..Len(fcgets[k].passed) : fcgets[k].passed[i] = k - 1

\* A get on the empty chain was followed by a get on a chain with fuzzers.
C22_Witness ==
    /\ Len(fcgets) >= 2
    /\ fcgets[1].chain = << >>
    /\ Len(fcgets[2].chain) >= 1

\* What a fuzzer appends for a step: the entry the step selects, or any entry.
Appended(fuzzer, step) ==
    IF fuzzer.kind = "LoopFixedStrings"
    THEN {StrBytes(fuzzer.list[(step % Len(fuzzer.list)) + 1])}
    ELSE {StrBytes(fuzzer.list[i]) : i \in 1..Len(fuzzer.list)}

\* The concatenations, in chain order, of what the fuzzers append for a step.
RECURSIVE Concatenations(_, _)
Concatenations(chain, step) ==
    IF chain = << >> THEN {<< >>}
    ELSE {front \o piece :
             front \in Concatenations(SubSeq(chain, 1, Len(chain) - 1), step),
             piece \in Appended(chain[Len(chain)], step)}

\* C23: what FuzzChain::get and FuzzChainImmuts::get(step) return is the
\* concatenation, in the order of the chain, of what each fuzzer appends for the
\* step: nothing of earlier gets is in it, and an empty chain gives the empty
\* buffer.
C23_GetConcatenates ==
    /\ \A k \in 1..Len(fcgets) :
          /\ fcgets[k].buf \in Concatenations(fcgets[k].chain, k - 1)
          /\ fcgets[k].chain = << >> => fcgets[k].buf = << >>
    /\ \A k \in 1..Len(fcigets) :
          /\ fcigets[k].buf \in Concatenations(fcigets[k].chain, fcigets[k].step)
          /\ fcigets[k].chain = << >> => fcigets[k].buf = << >>

\* A second get was made on a chain of two different fuzzers, after a first get
\* that returned bytes; an immutable chain of two fuzzers was read as well.
C23_Witness ==
    \/ /\ Len(fcgets) >= 2
       /\ fcgets[1].buf # << >>
       /\ Len(fcgets[2].chain) = 2
       /\ fcgets[2].chain[1] # fcgets[2].chain[2]
    \/ /\ Len(fcigets) >= 2
       /\ fcigets[1].buf # << >>
       /\ Len(fcigets[2].chain) = 2
       /\ fcigets[2].chain[1] # fcigets[2].chain[2]

\* The bytes a chain of LoopFixedStrings fuzzers gives for a step.
RECURSIVE LoopBytes(_, _)
LoopBytes(chain, step) ==
    IF chain = << >> THEN << >>
    ELSE StrBytes(Head(chain).list[(step % Len(Head(chain).list)) + 1])
         \o LoopBytes(Tail(chain), step)

OnlyLoops(chain) == \A i \in 1..Len(chain) : chain[i].kind = "LoopFixedStrings"

\* C24: FuzzChainImmuts::get(step) changes neither the chain nor its fuzzers: the
\* chain read by each get is still the front of the chain held now, and on
\* LoopFixedStrings fuzzers get(s) returns list[s mod len] of every position,
\* the same bytes however often and in whatever order the steps are asked for,
\* a fuzzer appended twice giving its bytes at both positions.
C24_ImmutableGetIsPure ==
    \A k \in 1..Len(fcigets) :
       /\ Len(fcigets[k].chain) <= Len(fci.chain)
       /\ fcigets[k].chain = SubSeq(fci.chain, 1, Len(fcigets[k].chain))
       /\ OnlyLoops(fcigets[k].chain) =>
             fcigets[k].buf = LoopBytes(fcigets[k].chain, fcigets[k].step)

\* One LoopFixedStrings fuzzer appended twice, read at a step and then again at
\* an earlier step.
C24_Witness ==
    /\ Len(fcigets) = 2
    /\ Len(fci.chain) = 2
    /\ OnlyLoops(fci.chain)
    /\ fci.chain[1] = fci.chain[2]
    /\ fcigets[1].chain = fci.chain
    /\ fcigets[1].step > fcigets[2].step
    /\ fcigets[1].buf # fcigets[2].buf

\* C25: the integer view of RandomBytes(n) succeeds for every n >= 0, those
\* below the word size included, and is an integer (of min(word size, n)
\* random bytes).
C25_RandomBytesIntSucceeds ==
    (fin.f = "RandomBytesInt" /\ fstage = "out") => fout.ok /\ fout.i \in ISize

\* The sixteen lowercase hexadecimal digits.
LowerHexDigits ==
    << "0", "1", "2", "3", "4", "5", "6", "7", "8", "9", "a", "b", "c", "d", "e", "f" >>

\* C26: the string view of a buffer of k bytes is 2k characters, two lowercase
\* hexadecimal digits per byte with the high nibble first, whatever the bytes.
C26_BufStringIsLowerHex ==
    (fin.f = "BufString" /\ fstage = "out") =>
        /\ fout.ok
        /\ Len(fout.s) = 2 * Len(bufs["v"])
        /\ \A k \in 1..Len(bufs["v"]) :
              /\ fout.s[(2 * k) - 1] = LowerHexDigits[(bufs["v"][k] \div 16) + 1]
              /\ fout.s[2 * k] = LowerHexDigits[(bufs["v"][k] % 16) + 1]

\* C27: in hex.rs a byte vector turned into hex and back is the vector again,
\* the empty one included, and the hex has two digits for each byte.
C27_HexRoundTrip ==
    (fin.f = "HexRoundTrip" /\ fstage = "out") =>
        /\ fout.ok
        /\ fout.t = bufs["v"]
        /\ Len(fout.s) = 2 * Len(bufs["v"])

\* The calls made on bridges, closes apart, by name.
BridgeCalls ==
    LET made == SelectSeq(iolog, LAMBDA e : e.ev # "close")
    IN [k \in 1..Len(made) |-> made[k].ev]

\* C28: the program predefined_prg builds compiles and, for N >= 1 and a chain
\* that exists, halts after N rounds of iobnew, fcget, iobwrite, iobflush with
\* ints[loopcnt] = N and stepu = N.
C28_PredefinedPrgRuns ==
    (fin.f = "predefined_prg" /\ fstage = "out") =>
        /\ fout.ok
        /\ status # "panic"
        /\ status = "halt" =>
              /\ "loopcnt" \in DOMAIN ints
              /\ ints["loopcnt"] = fin.i
              /\ stepu = fin.i
              /\ fcsteps = [k \in 1..fin.i |-> k - 1]
              /\ Len(BridgeCalls) = 3 * fin.i
              /\ \A k \in 1..fin.i :
                    /\ BridgeCalls[(3 * k) - 2] = "new"
                    /\ BridgeCalls[(3 * k) - 1] = "write"
                    /\ BridgeCalls[3 * k] = "flush"

\* The character at position i of a quoted token is escaped: it follows a
\* backslash that is not escaped itself.
RECURSIVE Escaped(_, _)
Escaped(t, i) == i > 2 /\ t[i - 1] = "\\" /\ ~Escaped(t, i - 1)

\* The positions of t that hold a double quote no backslash escapes.
UnescapedQuotes(t) == {i \in 2..Len(t) : t[i] = "\"" /\ ~Escaped(t, i)}

\* A token in double quotes with no unescaped quote in between.
WellQuoted(t) ==
    Len(t) >= 2 /\ t[1] = "\"" /\ UnescapedQuotes(t) = {Len(t)}

\* A token with text after its closing quote.
TextAfterQuote(t) ==
    Len(t) >= 2 /\ t[1] = "\"" /\ \E i \in UnescapedQuotes(t) : i < Len(t)

\* A token with a double quote at one end only.
QuoteAtOneEnd(t) == Len(t) >= 2 /\ ((t[1] = "\"") # (t[Len(t)] = "\""))

\* C29: DataM::compile turns a well quoted token into the StringLiteral of the
\* text between its quotes, whitespace kept, and panics on a token with text
\* after the closing quote or with a quote at one end only.
C29_StringLiteralCompiles ==
    (fin.f = "DataM_compile" /\ fstage = "out") =>
        /\ WellQuoted(fin.s) =>
              /\ fout.ok
              /\ fout.t = << "StringLiteral" >>
              /\ fout.s = SubSeq(fin.s, 2, Len(fin.s) - 1)
        /\ (TextAfterQuote(fin.s) \/ QuoteAtOneEnd(fin.s)) => ~fout.ok

\* The bytes a bufmerged case is to leave in dst once s holds hello: those of
\* hello for the variable, a space for the quoted space, in operand order.
RECURSIVE MergedBytes(_)
MergedBytes(srcs) ==
    IF srcs = << >> THEN << >>
    ELSE (IF Head(srcs) = "var" THEN StrBytes(<< "h", "e", "l", "l", "o" >>)
          ELSE StrBytes(<< " " >>))
         \o MergedBytes(Tail(srcs))

\* C30: bufmerged[.b|.s] dst E1 .. Ek compiles, a quoted operand with a space
\* being one operand, and leaves in dst the views of its operands in order:
\* after letstr s "hello", bufmerged.s dst s " " s leaves hello hello.
C30_BufMergedConcatenates ==
    (fin.f = "bufmerged" /\ fstage = "out") =>
        /\ fout.ok
        /\ fin.i = 1 => status # "panic"
        /\ (fin.i = 1 /\ status = "halt") =>
              \A c \in BufMergedCases :
                 fin.s = BufMergedLine(c) =>
                    "dst" \in DOMAIN bufs /\ bufs["dst"] = MergedBytes(c.srcs)

\* The step ran the instruction at iptr to its end, without a panic.
Ran(kind) ==
    /\ status = "run" /\ ~RunOver(iptr) /\ CurOp.op = kind
    /\ nsteps' = nsteps + 1 /\ status' = "run"

\* The step is a taken jump or goto, a checkjump to a real label or a call:
\* an instruction that assigned iptr and named where to.
WentTo(label) ==
    /\ last'.label = label /\ label \notin {"", "__NEXT__"}
    /\ \/ Ran("Jump")
       \/ Ran("CheckJump")
       \/ Ran("Call")
       \/ Ran("If") /\ last'.opdo

\* Where an instruction that went to label assigned iptr.
AssignedBy(label) ==
    IF Ran("Call") \/ (Ran("If") /\ CurOp.a[1] = "call") THEN funcs[label].idx
    ELSE lbls[label]

\* C31 as stated: every instruction that assigns iptr, a ret included, leaves
\* iptr_commonupdate false, and iptr is the value the instruction assigned.
C31_AssignersClearCommonUpdate ==
    [][/\ (\E label \in (DOMAIN lbls) \cup (DOMAIN funcs) : WentTo(label)) =>
             ~iptr_commonupdate'
       /\ Ran("Ret") =>
             ~iptr_commonupdate' /\ iptr' = callstack[Len(callstack)]]_vars

\* C31 amended: a taken jump or goto, a checkjump to a real label and a call
\* leave iptr_commonupdate false and iptr at the index they assigned; a ret
\* leaves iptr_commonupdate true, and the run loop adds 1 to the index it
\* popped.
C31_RetKeepsCommonUpdate ==
    [][/\ \A label \in (DOMAIN lbls) \cup (DOMAIN funcs) :
             WentTo(label) => ~iptr_commonupdate' /\ iptr' = AssignedBy(label)
       /\ Ran("Ret") =>
             iptr_commonupdate' /\ iptr' = callstack[Len(callstack)] + 1]_vars

\* A ret has just returned into a caller that had jumped or called before.
C31_Witness ==
    /\ Executed /\ LastOp.op = "Ret" /\ status = "run"
    /\ iptr_commonupdate
    /\ iptr > 0 /\ ops[iptr].op \in {"Call", "If"}

\* The instruction at index c is a call, plain or under an if.
IsCallAt(c) ==
    /\ c \in 0..(Len(ops) - 1)
    /\ \/ ops[c + 1].op = "Call"
       \/ ops[c + 1].op = "If" /\ ops[c + 1].a[1] = "call"

\* The step runs a ret, to its end or to a panic.
RetTried ==
    /\ status = "run" /\ ~RunOver(iptr) /\ CurOp.op = "Ret"
    /\ nsteps' = nsteps + 1

\* C32: callstack holds the calls that have not returned, oldest first; a ret
\* takes the newest of them, at index c, and the instruction executed next is
\* the one at c + 1; a ret with an empty call stack is fatal.
C32_RetReturnsToNewestCall ==
    [][/\ \A k \in 1..Len(callstack) : IsCallAt(callstack[k])
       /\ (RetTried /\ callstack # << >>) =>
             /\ status' = "run"
             /\ iptr' = callstack[Len(callstack)] + 1
             /\ callstack' = SubSeq(callstack, 1, Len(callstack) - 1)
       /\ (RetTried /\ callstack = << >>) => status' = "panic"]_vars

\* A ret has returned from a nested call: an older call is still pending, made
\* at another instruction than the one returned to.
C32_Witness ==
    /\ Executed /\ LastOp.op = "Ret" /\ status = "run"
    /\ Len(callstack) >= 1
    /\ callstack[1] + 1 # iptr
    /\ IsCallAt(iptr - 1)

\* The instructions of the program that call h, and the names each passes.
CallSites(h) ==
    {k \in 1..Len(ops) :
        \/ ops[k].op = "Call" /\ ops[k].a[1] = h
        \/ ops[k].op = "If" /\ ops[k].a[1] = "call" /\ ops[k].a[2] = h}

PassedAt(k) ==
    IF ops[k].op = "Call" THEN Tail(ops[k].a) ELSE SubSeq(ops[k].a, 3, Len(ops[k].a))

\* The functions that have x as a formal, and the positions it has in h.
OwnersOf(x) ==
    {h \in DOMAIN funcs : \E i \in 1..Len(funcs[h].args) : funcs[h].args[i] = x}

PositionsOf(x, h) == {i \in 1..Len(funcs[h].args) : funcs[h].args[i] = x}

FormalNames == {x \in UNION {{funcs[h].args[i] : i \in 1..Len(funcs[h].args)} :
                              h \in DOMAIN funcs} : TRUE}

\* The program says who supplies each formal: the formal belongs to one
\* function, at one position, and every call of that function passes as many
\* names as it has formals and the same name at that position.
SuppliedOnce(x) ==
    \E h \in DOMAIN funcs :
       /\ OwnersOf(x) = {h}
       /\ Cardinality(PositionsOf(x, h)) = 1
       /\ CallSites(h) # {}
       /\ \A k \in CallSites(h) : Len(PassedAt(k)) = Len(funcs[h].args)
       /\ \A k, m \in CallSites(h), i \in PositionsOf(x, h) :
             PassedAt(k)[i] = PassedAt(m)[i]

\* The name passed for the formal x by the calls of its function.
SuppliedFor(x) ==
    LET h == CHOOSE g \in OwnersOf(x) : TRUE
        i == CHOOSE j \in PositionsOf(x, h) : TRUE
        k == CHOOSE c \in CallSites(h) : TRUE
    IN PassedAt(k)[i]

\* The name the outermost caller supplied for a name: the name itself when it
\* is no formal, else what was supplied for the name its function is passed.
RECURSIVE OutermostName(_, _)
OutermostName(name, depth) ==
    IF depth = 0 \/ name \notin FormalNames THEN name
    ELSE OutermostName(SuppliedFor(name), depth - 1)

\* The step runs a call, plain or under a true if, of h with the names passed.
CallTried(h, passed) ==
    /\ status = "run" /\ ~RunOver(iptr) /\ nsteps' = nsteps + 1
    /\ \/ CurOp.op = "Call" /\ h = CurOp.a[1] /\ passed = Tail(CurOp.a)
       \/ /\ CurOp.op = "If" /\ CurOp.a[1] = "call" /\ last'.opdo
          /\ h = CurOp.a[2] /\ passed = SubSeq(CurOp.a, 3, Len(CurOp.a))

\* The sequences of names the calls of the program pass.
PassedLists == {PassedAt(k) : k \in UNION {CallSites(h) : h \in DOMAIN funcs}}

\* C33: the frame a call made by a function pushes maps each formal to the
\* name the outermost caller supplied for the argument passed (the argument
\* itself when it is no formal), at any depth of nesting; a call that passes
\* another number of arguments than the function has formals is fatal.
C33_FrameBindsOutermostName ==
    [][\A h \in DOMAIN funcs, passed \in PassedLists :
          CallTried(h, passed) =>
             /\ Len(passed) # Len(funcs[h].args) => status' = "panic"
             /\ (/\ Len(passed) = Len(funcs[h].args)
                 /\ callstack # << >>
                 /\ \A x \in FormalNames : SuppliedOnce(x)) =>
                   /\ status' = "run"
                   /\ Len(locals') = Len(locals) + 1
                   /\ \A i \in 1..Len(passed) :
                         locals'[Len(locals')][funcs[h].args[i]]
                            = OutermostName(passed[i], Len(ops))]_vars

\* C34: a call made while callstack is empty binds each formal to the name
\* written in the call instruction, whatever was called and has returned
\* before.
C34_TopLevelCallBindsWrittenNames ==
    [][\A h \in DOMAIN funcs, passed \in PassedLists :
          (/\ CallTried(h, passed)
           /\ callstack = << >>
           /\ Len(passed) = Len(funcs[h].args)) =>
             /\ status' = "run"
             /\ Len(locals') = Len(locals) + 1
             /\ \A i \in 1..Len(passed) :
                   locals'[Len(locals')][funcs[h].args[i]] = passed[i]]_vars

\* C35: for every program text, load_prg leaves the tokenising loop of each of
\* its lines and reaches compile.
C35_LoadPrgReachesCompile == <>(fstage = "out")

\* The step runs a buf8randomize of an existing buffer, to its end or to a
\* panic.
B8rTried ==
    /\ status = "run" /\ ~RunOver(iptr) /\ CurOp.op = "Buf8Randomize"
    /\ CurOp.a[1] \in DOMAIN bufs
    /\ nsteps' = nsteps + 1

\* The offsets at which the step changed the buffer.
B8rChanged ==
    {i \in 1..Len(bufs[CurOp.a[1]]) : bufs'[CurOp.a[1]][i] # bufs[CurOp.a[1]][i]}

\* C36: buf8randomize with its default operands completes on every existing
\* buffer, the empty one included, writing fewer bytes than the buffer has;
\* with any operands it leaves the buffer its length, and a buffer it does
\* not complete on is left as it was.
C36_Buf8RandomizeDefaults ==
    [][B8rTried =>
          /\ CurOp.d = B8rDefaults =>
                /\ status' = "run"
                /\ Len(bufs[CurOp.a[1]]) > 0 =>
                      Cardinality(B8rChanged) < Len(bufs[CurOp.a[1]])
          /\ status' = "run" => Len(bufs'[CurOp.a[1]]) = Len(bufs[CurOp.a[1]])
          /\ status' = "panic" => bufs' = bufs]_vars

\* C37: the byte view of the Timestamp special is one machine word, the
\* native-endian image of a millisecond count its integer view gives, so that
\* a buffer holding it reads back as that integer and letbuf b __TIME__STAMP__
\* followed by letint i b does not panic.
C37_TimeStampBytesAreOneWord ==
    fin.f = "TimeStampBytes" =>
        /\ status # "panic"
        /\ fstage = "out" =>
              /\ Len(fout.t) = WordBytes
              /\ fout.ok
              /\ \E iv \in Variant_get_isize(VXTimeStamp) :
                    fout.t = to_ne_bytes(iv.v, big_endian) /\ fout.i = iv.v

\* Every character of s is a hex digit.
AllHexDigits(s) == \A i \in 1..Len(s) : DigitVal(s[i], 16) >= 0

\* C38: hex.rs vu8_from_hex never panics; it returns Err for a string of odd
\* length or with a character that is no hex digit, and Ok of len/2 bytes,
\* each the value of its two digits, for a string of hex digits of even
\* length, the empty string included.
C38_Vu8FromHexNeverPanics ==
    (fin.f = "vu8_from_hex" /\ fstage = "out") =>
        /\ fout.s # << "panic" >>
        /\ (Len(fin.s) % 2 # 0 \/ ~AllHexDigits(fin.s)) => fout.s = << "Err" >>
        /\ (Len(fin.s) % 2 = 0 /\ AllHexDigits(fin.s)) =>
              /\ fout.s = << "Ok" >>
              /\ Len(fout.t) = Len(fin.s) \div 2
              /\ \A k \in 1..Len(fout.t) :
                    fout.t[k] = DigitVal(fin.s[(2 * k) - 1], 16) * 16
                                + DigitVal(fin.s[2 * k], 16)

\* C39: for weights that are not empty and no longer than the data, of odd
\* or even length, crosscorr_weighted_f_of_xf indexes nothing out of bounds
\* and returns as many entries as the data has; entry i of the middle keeps
\* the tag of entry i of the data, and the first and last len(weights)/2
\* entries are copies of the nearest entry of the middle.
C39_CrossCorrKeepsLength ==
    (fin.f = "crosscorr" /\ fstage = "out") =>
        LET fwh == Len(bufs["w"]) \div 2
        IN /\ fout.ok
           /\ Len(fout.t) = fin.i
           /\ \A i \in (fwh + 1)..(fin.i - fwh) : fout.t[i].m = i
           /\ \A i \in 1..fwh : fout.t[i] = fout.t[fwh + 1]
           /\ \A i \in (fin.i - fwh + 1)..fin.i : fout.t[i] = fout.t[fin.i - fwh]

\* The number a string of digits of the radix writes.
RECURSIVE NumberOf(_, _)
NumberOf(s, radix) ==
    IF s = << >> THEN 0
    ELSE (NumberOf(SubSeq(s, 1, Len(s) - 1), radix) * radix) + DigitVal(s[Len(s)], radix)

\* s is one or more digits of the radix.
IsNumber(s, radix) == s # << >> /\ \A i \in 1..Len(s) : DigitVal(s[i], radix) >= 0

\* s is one or more digits of the radix after at most one sign.
IsSignedNumber(s, radix) ==
    \/ IsNumber(s, radix)
    \/ s # << >> /\ Head(s) \in {"+", "-"} /\ IsNumber(Tail(s), radix)

\* fin.s without the whitespace around it, and after its 0x prefix.
Trimmed == Trim(fin.s)

IsHexText == Len(Trimmed) >= 2 /\ SubSeq(Trimmed, 1, 2) = << "0", "x" >>

AfterPrefix == SubSeq(Trimmed, 3, Len(Trimmed))

\* What intvalue::<U8X> is to do with a text that writes the number v.
ByteOrRefusal(v) ==
    IF v <= 255 THEN fout.s = << "Ok" >> /\ fout.i = v
    ELSE IF v <= MaxInt THEN fout.s = << "panic" >>
    ELSE fout.s = << "Err" >>

\* C40: U8X::from gives every integer of 0..255 unchanged and panics on every
\* other; intvalue::<U8X> reads decimal text and 0x-prefixed hexadecimal text,
\* the whitespace around it ignored, gives the byte written, panics on a
\* number beyond the byte range instead of truncating it, and returns Err for
\* a text that is no number.
C40_U8XKeepsOrRefuses ==
    /\ (fin.f = "U8X_from" /\ fstage = "out") =>
          IF fin.i \in 0..255 THEN fout.ok /\ fout.i = fin.i ELSE ~fout.ok
    /\ (fin.f = "integer_intvalue" /\ fstage = "out") =>
          /\ fout.s = << "Ok" >> => fout.i \in 0..255
          /\ (~IsHexText /\ IsNumber(Trimmed, 10)) => ByteOrRefusal(NumberOf(Trimmed, 10))
          /\ (IsHexText /\ IsNumber(AfterPrefix, 16)) =>
                ByteOrRefusal(NumberOf(AfterPrefix, 16))
          /\ (~IsHexText /\ ~IsSignedNumber(Trimmed, 10)) => fout.s = << "Err" >>
          /\ (IsHexText /\ ~IsSignedNumber(AfterPrefix, 16)) => fout.s = << "Err" >>

\* The text 0xff with a space before it gave the byte 255.
C40_Witness ==
    /\ fstage = "out"
    /\ fin = FnIn("integer_intvalue", 0, << " ", "0", "x", "f", "f" >>)
    /\ fout.s = << "Ok" >>
    /\ fout.i = 255

====
